---- MODULE Spec2Model ----
(***************************************************************************)
(* Model of the completion-review hook: TodoStateDetector, StateManager,   *)
(* QuotaMonitor, DebateOrchestrator and CompletionOrchestrator.            *)
(*                                                                         *)
(* Three specifications share the module:                                  *)
(*   Spec      sequential orchestrate invocations of one session           *)
(*   SpecRMW   concurrent StateManager increments on one (session, key)    *)
(*   SpecQuota the QuotaMonitor API driven directly, with a wall clock     *)
(*                                                                         *)
(* Abstractions: time is an integer number of minutes; the ISO timestamps  *)
(* that no code path reads back (updated_at, last_review_at, last_success, *)
(* last_failure) are kept as dictionary keys without a value; message      *)
(* texts are sequences of named parts, the empty sequence being "".        *)
(***************************************************************************)
EXTENDS Integers, Sequences, FiniteSets, TLC

VARIABLES
    config,        \* the loaded config.json (one per behaviour)
    now,           \* wall clock, minutes
    today,         \* local calendar date, a day number
    todoFile,      \* <session>_todo.json, a dictionary
    quotas,        \* QuotaMonitor.quotas (== quota_state.json "quotas")
    quotaDate,     \* quota_state.json "date"
    auditLog,      \* completion-audit-*.jsonl, the appended events
    pc,            \* position of the running orchestrate invocation
    inv,           \* locals of the running orchestrate invocation
    output,        \* the value orchestrate returned last
    hist,          \* observations of the running invocation (history)
    nInv,          \* number of orchestrate invocations started
    prevInv,       \* what the previous invocation was about (history)
    rmw,           \* SpecRMW: stored counter file, lock and callers
    qm,            \* SpecQuota: observations of the driven API (history)
    fn,            \* SpecDebateFn: one call of a DebateOrchestrator method
    det,           \* SpecDetect: concurrent hook invocations of one session
    sf,            \* SpecStateFile: one state file and the calls made on it
    fo,            \* SpecFanOut: one fan-out of external reviews and its clock
    qp,            \* SpecQuotaProcs: the QuotaMonitor of each of two hook processes
    pr,            \* SpecParse: one reviewer reply and the parse_response call on it
    ro             \* SpecReview: retry, debounce and override state of the stage reviews

vars == <<config, now, today, todoFile, quotas, quotaDate, auditLog, pc, inv,
          output, hist, nInv, prevInv, rmw, qm, fn, det, sf,
          fo,
          qp,
          pr,
          ro>>

----------------------------------------------------------------------------
(* Bounds of the model *)

MaxInvocations == 3
MaxDebateInvocations == 1
MaxTodos == 2
MaxTime == 30
MaxDay == 1
MaxCallers == 3
MaxStored == 1
MaxQuotaOps == 3
MaxResults == 2
MaxWaitTicks == 3
MaxIssues == 1
MaxReviewOps == 3
MaxSkip == 2

(* Program constants *)

CooldownMinutes == 30
DefaultMaxReviews == 3
DefaultMaxRounds == 2
ExhaustedAfter == 3
LowAfter == 2

----------------------------------------------------------------------------
(* Generic helpers *)


RECURSIVE SeqToSet(_)
SeqToSet(s) == IF s = <<>> THEN {} ELSE {Head(s)} \cup SeqToSet(Tail(s))


\* All sequences over S of length 0..n
SeqsUpTo(S, n) == UNION {[1..k -> S] : k \in 0..n}

----------------------------------------------------------------------------
(* adapters/base.py : Severity *)

Severities == {"OK", "LOW", "MEDIUM", "HIGH", "CRITICAL"}
ordered == <<"OK", "LOW", "MEDIUM", "HIGH", "CRITICAL">>

\* ordered.index(s)
OrderIndex(s) == CHOOSE i \in 1..Len(ordered) : ordered[i] = s

\* Severity.__lt__
SeverityLt(a, b) == OrderIndex(a) < OrderIndex(b)

RECURSIVE MaxSeverityFrom(_, _)
\* max(iterable, default=...) : keeps the first maximal element, replacing
\* the running maximum only by a strictly greater one (item > max is
\* answered by the reflected max.__lt__(item)).
MaxSeverityFrom(cur, s) ==
    IF s = <<>> THEN cur
    ELSE MaxSeverityFrom(IF SeverityLt(cur, Head(s)) THEN Head(s) ELSE cur, Tail(s))

MaxSeverity(s, default) ==
    IF s = <<>> THEN default ELSE MaxSeverityFrom(Head(s), Tail(s))

----------------------------------------------------------------------------
(* Error texts, as character sequences, and the keyword scan of            *)
(* QuotaMonitor.record_failure                                             *)

UpperChars == <<"A","B","C","D","E","F","G","H","I","J","K","L","M","N","O","P","Q","R","S","T","U","V","W","X","Y","Z">>
LowerChars == <<"a","b","c","d","e","f","g","h","i","j","k","l","m","n","o","p","q","r","s","t","u","v","w","x","y","z">>

LowerChar(c) ==
    IF \E i \in 1..Len(UpperChars) : UpperChars[i] = c
    THEN LowerChars[CHOOSE i \in 1..Len(UpperChars) : UpperChars[i] = c]
    ELSE c

\* str.lower()
Lower(s) == [i \in 1..Len(s) |-> LowerChar(s[i])]

\* kw in s
Contains(s, kw) ==
    \E i \in 1..(Len(s) - Len(kw) + 1) : SubSeq(s, i, i + Len(kw) - 1) = kw

quota_keywords ==
    << <<"q","u","o","t","a">>,
       <<"l","i","m","i","t">>,
       <<"e","x","c","e","e","d","e","d">>,
       <<"r","a","t","e">>,
       <<"4","2","9">>,
       <<"e","x","h","a","u","s","t","e","d">> >>

\* The error texts adapters produce, named by a short identifier that the
\* verdict carries.  "none" is error=None.
ErrorIds == {"quota", "http429", "timeout", "generate"}

ErrorText(e) ==
    CASE e = "quota"    -> <<"Q","u","o","t","a"," ","e","x","c","e","e","d","e","d">>
      [] e = "http429"  -> <<"A","P","I"," ","e","r","r","o","r"," ","4","2","9">>
      [] e = "timeout"  -> <<"T","i","m","e","o","u","t"," ","a","f","t","e","r"," ","6","0","s">>
      [] e = "generate" -> <<"f","a","i","l","e","d"," ","t","o"," ","g","e","n","e","r","a","t","e">>
      [] OTHER          -> <<"U","n","k","n","o","w","n"," ","e","r","r","o","r">>

\* any(kw in error.lower() for kw in quota_keywords), on a text
HasQuotaKeyword(text) ==
    \E k \in 1..Len(quota_keywords) : Contains(Lower(text), quota_keywords[k])

\* the scan of each error text, computed once
QuotaErrorTable == [e \in ErrorIds |-> HasQuotaKeyword(ErrorText(e))]

\* is_quota_error of record_failure, for the error named e
IsQuotaError(e) ==
    IF e \in ErrorIds THEN QuotaErrorTable[e] ELSE HasQuotaKeyword(ErrorText(e))

----------------------------------------------------------------------------
(* state_manager.py : the <session>_todo.json dictionary                   *)
(* A dictionary is a record: "keys" is the set of keys present, the other  *)
(* fields hold the values (a field whose key is absent holds a filler).    *)

EmptyDict ==
    [keys |-> {}, all_completed |-> FALSE, total |-> 0, completed |-> 0,
     todos_snapshot |-> <<>>, review_count |-> 0]

\* dict.get(k, default)
Get(d, k, default) == IF k \in d.keys THEN d[k] ELSE default

\* StateManager.get_todo_state : _read_state(session, "todo"); a missing
\* file reads as {}
GetTodoState(file) == file

\* StateManager.save_todo_state : stamps updated_at and writes the given
\* dictionary as the whole file
SaveTodoState(state) == [state EXCEPT !.keys = @ \cup {"updated_at"}]

\* StateManager.get_completion_review_count
GetCompletionReviewCount(file) == Get(file, "review_count", 0)

\* StateManager.increment_completion_review_count : the file written
IncrementCompletionReviewCount(file) ==
    [file EXCEPT !.review_count = Get(file, "review_count", 0) + 1,
                 !.keys = @ \cup {"review_count", "last_review_at"}]

----------------------------------------------------------------------------
(* todo_state_detector.py *)

\* the statuses explored; the code only tells "completed" from the rest
TodoStatuses == {"pending", "completed"}

\* sum(1 for t in todos if t.get("status") == "completed")
CountCompleted(todos) == Cardinality({i \in 1..Len(todos) : todos[i] = "completed"})

\* just_completed = all_completed and not prev_all_completed
JustCompleted(all_completed, prev_all_completed) ==
    all_completed /\ ~prev_all_completed

\* The dictionary detect_completion hands to save_todo_state
NewSnapshot(todos) ==
    [keys |-> {"all_completed", "total", "completed", "todos_snapshot"},
     all_completed |-> (CountCompleted(todos) = Len(todos)),
     total |-> Len(todos),
     completed |-> CountCompleted(todos),
     todos_snapshot |-> todos,
     review_count |-> 0]

\* TodoStateDetector.detect_completion : the TodoState returned
DetectResult_NoEmptyReturn(file, todos) ==
    [all_completed |-> (CountCompleted(todos) = Len(todos)),
     just_completed |->
         JustCompleted(CountCompleted(todos) = Len(todos),
                       Get(GetTodoState(file), "all_completed", FALSE)),
     total |-> Len(todos),
     completed |-> CountCompleted(todos)]

DetectResult(file, todos) ==
    IF todos = <<>>
    THEN [all_completed |-> FALSE, just_completed |-> FALSE, total |-> 0, completed |-> 0]
    ELSE [all_completed |-> (CountCompleted(todos) = Len(todos)),
          just_completed |->
              JustCompleted(CountCompleted(todos) = Len(todos),
                            Get(GetTodoState(file), "all_completed", FALSE)),
          total |-> Len(todos),
          completed |-> CountCompleted(todos)]

\* detect_completion saving the new snapshot over the stored record and
\* keeping the record's review_count
DetectFile_KeepsCount(file, todos) ==
    IF todos = <<>> THEN file
    ELSE [SaveTodoState(NewSnapshot(todos)) EXCEPT
            !.review_count = file.review_count,
            !.keys = @ \cup (file.keys \cap {"review_count"})]

\* TodoStateDetector.detect_completion : the todo file it leaves
DetectFile(file, todos) ==
    IF todos = <<>> THEN file ELSE SaveTodoState(NewSnapshot(todos))

----------------------------------------------------------------------------
(* quota_monitor.py *)

ExternalNames == {"gemini", "copilot"}

NoCooldown == -1

\* AdapterQuota(adapter_name, status) with the dataclass defaults
NewQuota(status) ==
    [present |-> TRUE, status |-> status, failure_count |-> 0, success_count |-> 0,
     consecutive_failures |-> 0, cooldown_until |-> NoCooldown,
     keys |-> {}]

\* an adapter that has no entry in self.quotas
AbsentQuota == [NewQuota("unknown") EXCEPT !.present = FALSE]

\* cooldown_end = datetime.now() + timedelta(minutes=30)
CooldownEnd_Short(t) == t + CooldownMinutes \div 2
CooldownEnd(t) == t + CooldownMinutes

\* QuotaMonitor.record_success : the record of adapter a afterwards
RecordSuccess(q) ==
    LET r == IF q.present THEN q ELSE NewQuota("available")
    IN  [r EXCEPT !.success_count = @ + 1,
                  !.consecutive_failures = 0,
                  !.keys = @ \cup {"last_success"},
                  !.status = "available",
                  !.cooldown_until = NoCooldown]

\* the status/cooldown classification of record_failure, given the record
\* with its counters already incremented
ClassifyFailure(r, e, t) ==
    IF IsQuotaError(e) \/ r.consecutive_failures >= ExhaustedAfter
    THEN [r EXCEPT !.status = "exhausted", !.cooldown_until = CooldownEnd(t)]
    ELSE IF r.consecutive_failures >= LowAfter
         THEN [r EXCEPT !.status = "low"]
         ELSE r

\* QuotaMonitor.record_failure : the record of adapter a afterwards
RecordFailure(q, e, t) ==
    LET r == IF q.present THEN q ELSE NewQuota("unknown")
    IN  ClassifyFailure([r EXCEPT !.failure_count = @ + 1,
                                  !.consecutive_failures = @ + 1,
                                  !.keys = @ \cup {"last_failure"}], e, t)

\* the cooldown test of is_available: datetime.now() < cooldown_end
InCooldown(q, t) == q.cooldown_until # NoCooldown /\ t < q.cooldown_until

\* is_available reached the branch that clears an expired cooldown
CooldownExpired(q, t) ==
    q.present /\ q.cooldown_until # NoCooldown /\ ~(t < q.cooldown_until)

\* QuotaMonitor.is_available : the record of the adapter afterwards
IsAvailableRecord(q, t) ==
    IF CooldownExpired(q, t)
    THEN [q EXCEPT !.status = "unknown", !.consecutive_failures = 0,
                   !.cooldown_until = NoCooldown]
    ELSE q

\* QuotaMonitor.is_available : the value returned
IsAvailable(q, t) ==
    IF ~q.present THEN TRUE
    ELSE IF InCooldown(q, t) THEN FALSE
    ELSE IsAvailableRecord(q, t).status # "exhausted"

\* QuotaMonitor.get_available_adapters : the names returned
GetAvailableAdapters(qs, names, t) == {a \in names : IsAvailable(qs[a], t)}

\* QuotaMonitor.get_available_adapters : the quota map afterwards
QuotasAfterFilter(qs, names, t) ==
    [a \in ExternalNames |-> IF a \in names THEN IsAvailableRecord(qs[a], t) ELSE qs[a]]

\* whether get_available_adapters reached _save_state
FilterSaves(qs, names, t) == \E a \in names : CooldownExpired(qs[a], t)

\* QuotaMonitor._load_state, for a quota file that exists: a stored date
\* other than today's discards the map (and saves), else the map is restored
\* AdapterQuota.to_dict: the stored form of a record, status by its value
ToDict(q) ==
    [status |-> q.status, keys |-> q.keys,
     failure_count |-> q.failure_count, success_count |-> q.success_count,
     consecutive_failures |-> q.consecutive_failures,
     cooldown_until |-> q.cooldown_until]

\* the AdapterQuota that _load_state builds from a stored record
FromDict(d) ==
    [present |-> TRUE, status |-> d.status, keys |-> d.keys,
     failure_count |-> d.failure_count, success_count |-> d.success_count,
     consecutive_failures |-> d.consecutive_failures,
     cooldown_until |-> d.cooldown_until]

LoadQuotas_KeepAll(qs, stored, day) == qs

LoadQuotas(qs, stored, day) ==
    IF stored # day
    THEN [a \in ExternalNames |-> AbsentQuota]
    ELSE [a \in ExternalNames |->
            IF qs[a].present THEN FromDict(ToDict(qs[a])) ELSE AbsentQuota]

----------------------------------------------------------------------------
(* adapters/base.py : ReviewResult, and what the adapters return            *)
(* An issue is carried as its severity; its texts only feed the rendered    *)
(* message.                                                                 *)

SelfName == "claude_self"

\* the issue list explored for a successful review of severity sev: none with
\* OK, otherwise one issue of that severity
IssuesFor(sev) == IF sev = "OK" THEN <<>> ELSE <<sev>>

\* ReviewResult of a successful external review (parse_response)
SuccessVerdict(a, sev) ==
    [adapter_name |-> a, severity |-> sev, issues |-> IssuesFor(sev),
     success |-> TRUE, error |-> "none", is_self_review |-> FALSE]

\* ReviewResult of a failed external review: severity OK, success False
FailedVerdict_KeepsFindings(a, e) ==
    [adapter_name |-> a, severity |-> "HIGH", issues |-> IssuesFor("HIGH"),
     success |-> FALSE, error |-> e, is_self_review |-> FALSE]

FailedVerdict(a, e) ==
    [adapter_name |-> a, severity |-> "OK", issues |-> <<>>,
     success |-> FALSE, error |-> e, is_self_review |-> FALSE]

\* ClaudeSelfAdapter.review
SelfVerdict ==
    [adapter_name |-> SelfName, severity |-> "OK", issues |-> <<>>,
     success |-> TRUE, error |-> "none", is_self_review |-> TRUE]

\* the error texts of the failed reviews explored in an orchestration
ReviewErrors == {"quota", "timeout"}

\* every ReviewResult an external adapter's review can return
ExternalOutcomes(a) ==
    {SuccessVerdict(a, sev) : sev \in Severities} \cup {FailedVerdict(a, e) : e \in ReviewErrors}

RECURSIVE SelectResults(_, _, _)
\* [r for r in results if <r.is_self_review = self> and (r.success or not needOk)]
SelectResults(rs, self, needOk) ==
    IF rs = <<>> THEN <<>>
    ELSE IF Head(rs).is_self_review = self /\ (Head(rs).success \/ ~needOk)
         THEN <<Head(rs)>> \o SelectResults(Tail(rs), self, needOk)
         ELSE SelectResults(Tail(rs), self, needOk)

RECURSIVE Successful(_)
\* [r for r in results if r.success]
Successful(rs) ==
    IF rs = <<>> THEN <<>>
    ELSE IF Head(rs).success THEN <<Head(rs)>> \o Successful(Tail(rs))
         ELSE Successful(Tail(rs))

\* a prompt that shows the adapter every verdict, its own included
OtherResults_KeepsOwn(rs, a) == rs

RECURSIVE OtherResults(_, _)
\* [r for r in current_results if r.adapter_name != adapter.name]
OtherResults(rs, a) ==
    IF rs = <<>> THEN <<>>
    ELSE IF Head(rs).adapter_name # a THEN <<Head(rs)>> \o OtherResults(Tail(rs), a)
         ELSE OtherResults(Tail(rs), a)

\* [r.severity for r in rs]
SeveritiesOf(rs) == [i \in 1..Len(rs) |-> rs[i].severity]

\* indices = [ordered.index(s) for s in severities]; max(indices) - min(indices)
IndexSpread(sevs) ==
    LET idx == {OrderIndex(sevs[i]) : i \in 1..Len(sevs)}
    IN  (CHOOSE m \in idx : \A j \in idx : j <= m) - (CHOOSE m \in idx : \A j \in idx : m <= j)

\* ordered[min(indices)]
HighestOf_Lowest(sevs) ==
    LET idx == {OrderIndex(sevs[i]) : i \in 1..Len(sevs)}
    IN  ordered[CHOOSE m \in idx : \A j \in idx : m <= j]

\* ordered[max(indices)]
HighestOf(sevs) ==
    LET idx == {OrderIndex(sevs[i]) : i \in 1..Len(sevs)}
    IN  ordered[CHOOSE m \in idx : \A j \in idx : j <= m]

----------------------------------------------------------------------------
(* debate_orchestrator.py *)

\* the disagreement rule firing on a one-step spread
NeedsDebate_OneStep(cfg, results) ==
    LET successful == SelectResults(results, FALSE, TRUE)
        severities == SeveritiesOf(successful)
    IN  IF ~cfg.debate_enabled THEN [needs |-> FALSE, reason |-> "debate disabled"]
        ELSE IF Len(successful) < 1 THEN [needs |-> FALSE, reason |-> "not enough results"]
        ELSE IF cfg.trigger_on_high
                /\ \E i \in 1..Len(severities) : severities[i] \in {"HIGH", "CRITICAL"}
             THEN [needs |-> TRUE, reason |-> "high severity found"]
        ELSE IF cfg.trigger_on_disagreement /\ Len(severities) >= 2
                /\ Cardinality(SeqToSet(severities)) > 1
                /\ IndexSpread(severities) >= 1
             THEN [needs |-> TRUE, reason |-> "significant disagreement"]
        ELSE [needs |-> FALSE, reason |-> "no debate needed"]

\* DebateOrchestrator.needs_debate : (needs, reason)
NeedsDebate(cfg, results) ==
    LET successful == SelectResults(results, FALSE, TRUE)
        severities == SeveritiesOf(successful)
    IN  IF ~cfg.debate_enabled THEN [needs |-> FALSE, reason |-> "debate disabled"]
        ELSE IF Len(successful) < 1 THEN [needs |-> FALSE, reason |-> "not enough results"]
        ELSE IF cfg.trigger_on_high
                /\ \E i \in 1..Len(severities) : severities[i] \in {"HIGH", "CRITICAL"}
             THEN [needs |-> TRUE, reason |-> "high severity found"]
        ELSE IF cfg.trigger_on_disagreement /\ Len(severities) >= 2
                /\ Cardinality(SeqToSet(severities)) > 1
                /\ IndexSpread(severities) >= 2
             THEN [needs |-> TRUE, reason |-> "significant disagreement"]
        ELSE [needs |-> FALSE, reason |-> "no debate needed"]

\* the spread the consensus check still accepts
ConsensusSpread == 1

\* consensus accepted up to a two-step spread
CheckConsensus_TwoSteps(results) ==
    LET successful == Successful(results)
        severities == SeveritiesOf(successful)
    IN  IF successful = <<>> THEN [consensus |-> FALSE, severity |-> "None"]
        ELSE IF Cardinality(SeqToSet(severities)) = 1
             THEN [consensus |-> TRUE, severity |-> severities[1]]
        ELSE IF IndexSpread(severities) <= ConsensusSpread + 1
             THEN [consensus |-> TRUE, severity |-> HighestOf(severities)]
        ELSE [consensus |-> FALSE, severity |-> "None"]

\* DebateOrchestrator._check_consensus : (consensus, severity); "None" is None
CheckConsensus(results) ==
    LET successful == Successful(results)
        severities == SeveritiesOf(successful)
    IN  IF successful = <<>> THEN [consensus |-> FALSE, severity |-> "None"]
        ELSE IF Cardinality(SeqToSet(severities)) = 1
             THEN [consensus |-> TRUE, severity |-> severities[1]]
        ELSE IF IndexSpread(severities) <= ConsensusSpread
             THEN [consensus |-> TRUE, severity |-> HighestOf(severities)]
        ELSE [consensus |-> FALSE, severity |-> "None"]

\* severity_scores
SeverityScore(s) == OrderIndex(s) - 1

\* weights.get(r.adapter_name, 1.0)
WeightOf(cfg, a) == IF a \in cfg.weight_keys THEN cfg.weights[a] ELSE 1

RECURSIVE WeightedScore(_, _)
\* weighted_score accumulated over the successful results
WeightedScore(cfg, rs) ==
    IF rs = <<>> THEN 0
    ELSE (IF Head(rs).success
          THEN WeightOf(cfg, Head(rs).adapter_name) * SeverityScore(Head(rs).severity)
          ELSE 0) + WeightedScore(cfg, Tail(rs))

RECURSIVE TotalWeight(_, _)
\* total_weight accumulated over the successful results
TotalWeight(cfg, rs) ==
    IF rs = <<>> THEN 0
    ELSE (IF Head(rs).success THEN WeightOf(cfg, Head(rs).adapter_name) ELSE 0)
         + TotalWeight(cfg, Tail(rs))

\* rounding that takes a half to the next integer
Round_HalfUp(num, den) ==
    IF 2 * (num % den) < den THEN num \div den ELSE (num \div den) + 1

\* round(num / den) for num >= 0, den > 0 : Python rounds half to even
Round(num, den) ==
    LET q == num \div den
        r == num % den
    IN  IF 2 * r < den THEN q
        ELSE IF 2 * r > den THEN q + 1
        ELSE IF q % 2 = 0 THEN q ELSE q + 1

\* the lookup keyed by 1..5, so that score 0 falls to the default
ScoreToSeverity_FromOne(n) == IF n \in 1..5 THEN ordered[n] ELSE "MEDIUM"

\* score_to_severity.get(rounded_score, Severity.MEDIUM)
ScoreToSeverity(n) == IF n \in 0..4 THEN ordered[n + 1] ELSE "MEDIUM"

\* the vote falling back to the lookup's MEDIUM when nothing was weighed
WeightedVote_EmptyIsMedium(cfg, results) ==
    IF TotalWeight(cfg, results) = 0 THEN "MEDIUM"
    ELSE ScoreToSeverity(Round(WeightedScore(cfg, results), TotalWeight(cfg, results)))

\* DebateOrchestrator._weighted_vote
WeightedVote(cfg, results) ==
    IF TotalWeight(cfg, results) = 0 THEN "OK"
    ELSE ScoreToSeverity(Round(WeightedScore(cfg, results), TotalWeight(cfg, results)))

\* DebateRound
DebateRound(round_num, results, consensus_reached, final_severity) ==
    [present |-> TRUE, round_num |-> round_num, results |-> results,
     consensus_reached |-> consensus_reached, final_severity |-> final_severity]

\* debate_result = None
NoDebate ==
    [present |-> FALSE, round_num |-> 0, results |-> <<>>,
     consensus_reached |-> FALSE, final_severity |-> "None"]

----------------------------------------------------------------------------
(* completion_orchestrator.py : decision assembly *)

\* final severity taken from the first successful external verdict
FinalSeverity_FirstVerdict(results, debate_result) ==
    LET external_results == SelectResults(results, FALSE, TRUE)
    IN  IF debate_result.present /\ debate_result.final_severity # "None"
        THEN debate_result.final_severity
        ELSE IF external_results # <<>>
             THEN external_results[1].severity
             ELSE "OK"

\* final_severity of _build_output
FinalSeverity(results, debate_result) ==
    LET external_results == SelectResults(results, FALSE, TRUE)
    IN  IF debate_result.present /\ debate_result.final_severity # "None"
        THEN debate_result.final_severity
        ELSE IF external_results # <<>>
             THEN MaxSeverity(SeveritiesOf(external_results), "OK")
             ELSE "OK"

\* should_block = final_severity in (HIGH, CRITICAL)
ShouldBlock_HighBlocks(final_severity) == final_severity \in {"HIGH", "CRITICAL"}

\* should_block = final_severity == Severity.CRITICAL
ShouldBlock(final_severity) == final_severity = "CRITICAL"

\* the parts _build_output joins into systemMessage
OutputMessages(results, debate_result) ==
    LET external_results == SelectResults(results, FALSE, TRUE)
        fs == FinalSeverity(results, debate_result)
    IN  [i \in 1..Len(SelectResults(results, TRUE, FALSE)) |-> "self_review_request"]
        \o (IF debate_result.present /\ debate_result.final_severity # "None"
            THEN <<"debate_result">>
            ELSE IF external_results # <<>> /\ fs # "OK"
                 THEN <<"external_findings">>
                 ELSE <<>>)
        \o (IF ShouldBlock(fs) THEN <<"critical_block">> ELSE <<>>)

\* CompletionOrchestrator._build_output
BuildOutput(results, debate_result) ==
    [continue |-> ~ShouldBlock(FinalSeverity(results, debate_result)),
     systemMessage |-> OutputMessages(results, debate_result)]

\* the value orchestrate returns when Gate 1 stops it
SkipOutput == [continue |-> TRUE, systemMessage |-> <<>>]

\* what main prints when stdin does not parse as JSON
ParseFailedOutput == [continue |-> TRUE, systemMessage |-> <<"input_parse_failed">>]

\* the value orchestrate returns when Gate 2 stops it
BudgetOutput == [continue |-> TRUE, systemMessage |-> <<"max_reviews_reached">>]

----------------------------------------------------------------------------
(* The configurations explored (config.json) *)

\* config.json with every option at the default the code gives it
DefaultConfig ==
    [enabled_adapters |-> ExternalNames, installed |-> ExternalNames,
     include_self_review |-> TRUE, include_external_review |-> TRUE,
     max_reviews |-> DefaultMaxReviews, debate_enabled |-> FALSE,
     max_rounds |-> DefaultMaxRounds,
     trigger_on_disagreement |-> TRUE, trigger_on_high |-> TRUE,
     weight_keys |-> {}, weights |-> [a \in ExternalNames |-> 1]]

\* configurations with the debate disabled
PlainConfigs ==
    { DefaultConfig,
      [DefaultConfig EXCEPT !.max_reviews = 0],
      [DefaultConfig EXCEPT !.enabled_adapters = {}],
      [DefaultConfig EXCEPT !.enabled_adapters = {"gemini"}, !.include_self_review = FALSE],
      [DefaultConfig EXCEPT !.include_external_review = FALSE] }

\* configurations with the debate enabled
DebateConfigs ==
    { [DefaultConfig EXCEPT !.debate_enabled = TRUE, !.max_rounds = 1],
      [DefaultConfig EXCEPT !.debate_enabled = TRUE, !.max_rounds = 1,
                            !.trigger_on_high = FALSE, !.include_self_review = FALSE,
                            !.weight_keys = {"copilot"}, !.weights["copilot"] = 2],
      [DefaultConfig EXCEPT !.debate_enabled = TRUE, !.max_rounds = 1,
                            !.enabled_adapters = {"gemini"}],
      [DefaultConfig EXCEPT !.debate_enabled = TRUE, !.max_rounds = 0,
                            !.include_self_review = FALSE],
      [DefaultConfig EXCEPT !.debate_enabled = TRUE,
                            !.trigger_on_disagreement = FALSE,
                            !.weight_keys = {"copilot"}, !.weights["copilot"] = 2] }

ConfigSet == PlainConfigs \cup DebateConfigs

\* invocations explored per behaviour under a configuration
InvocationBound(cfg) ==
    IF cfg.debate_enabled THEN MaxDebateInvocations ELSE MaxInvocations

----------------------------------------------------------------------------
(* completion_orchestrator.py : CompletionOrchestrator *)

\* CompletionOrchestrator._init_external_adapters : the adapters selected,
\* in the order the code appends them
InitExternalAdapters(cfg, qs, t) ==
    IF ~cfg.include_external_review THEN <<>>
    ELSE LET available == GetAvailableAdapters(qs, cfg.enabled_adapters, t)
         IN  (IF "gemini" \in available /\ "gemini" \in cfg.installed
              THEN <<"gemini">> ELSE <<>>)
             \o (IF "copilot" \in available /\ "copilot" \in cfg.installed
                 THEN <<"copilot">> ELSE <<>>)

\* CompletionOrchestrator._init_external_adapters : the quota map afterwards
QuotasAfterInit(cfg, qs, t) ==
    IF ~cfg.include_external_review THEN qs
    ELSE QuotasAfterFilter(qs, cfg.enabled_adapters, t)

\* whether _init_external_adapters wrote quota_state.json
InitSaves(cfg, qs, t) ==
    cfg.include_external_review /\ FilterSaves(qs, cfg.enabled_adapters, t)

\* locals of orchestrate / _run_parallel_reviews / run_debate before a call
NoInv ==
    [todos |-> <<>>, review_count |-> 0, results |-> <<>>,
     external_adapters |-> <<>>, pending |-> {},
     round_num |-> 0, idx |-> 0, current_results |-> <<>>, new_results |-> <<>>,
     other_results |-> <<>>,
     debate_result |-> NoDebate, reason |-> "none"]

NoHist ==
    [complete |-> FALSE, just_completed |-> FALSE, all_completed |-> FALSE,
     prev_all_completed |-> FALSE, passed_gate1 |-> FALSE,
     count_before |-> 0, count_after_detect |-> 0,
     quotas_at_gate |-> [a \in ExternalNames |-> AbsentQuota],
     calls |-> <<>>, count_at_first_call |-> -1,
     verdicts_seen |-> {}, raised |-> {}, audits |-> 0, audit_event |-> "none",
     audit_failed |-> FALSE, decision |-> SkipOutput, stdin |-> "hook_input",
     audit_len_at_start |-> 0,
     after_audit |-> FALSE, debated |-> FALSE, rounds |-> <<>>,
     prev_round |-> <<>>,
     final_severity |-> "None"]

\* one reviewer call: who, in which round, and QuotaMonitor.is_available
\* for that adapter at the moment of the call
Call(a, round_num, qs, t) ==
    [adapter |-> a, round_num |-> round_num,
     available |-> IF a \in ExternalNames THEN IsAvailable(qs[a], t) ELSE TRUE]

RECURSIVE CallsOf(_, _, _, _)
CallsOf(as, round_num, qs, t) ==
    IF as = <<>> THEN <<>>
    ELSE <<Call(Head(as), round_num, qs, t)>> \o CallsOf(Tail(as), round_num, qs, t)

Init ==
    /\ config \in ConfigSet
    /\ now = 0
    /\ today = 0
    /\ todoFile = EmptyDict
    /\ quotas = [a \in ExternalNames |-> AbsentQuota]
    /\ quotaDate = 0
    /\ auditLog = <<>>
    /\ pc = "idle"
    /\ inv = NoInv
    /\ output = SkipOutput
    /\ hist = NoHist
    /\ nInv = 0
    /\ prevInv = [complete |-> FALSE]
    /\ ro = "unused"
    /\ pr = "unused"
    /\ qp = "unused"
    /\ fo = "unused"
    /\ rmw = "unused"
    /\ qm = "unused"
    /\ fn = "unused"
    /\ det = "unused"
    /\ sf = "unused"

\* orchestrate, step 1: detect_completion and Gate 1
Start(todos) ==
    /\ pc = "idle"
    /\ nInv < InvocationBound(config)
    /\ nInv' = nInv + 1
    /\ todoFile' = DetectFile(todoFile, todos)
    /\ inv' = [NoInv EXCEPT !.todos = todos]
    /\ hist' = [NoHist EXCEPT
                  !.complete = (todos # <<>> /\ \A i \in 1..Len(todos) : todos[i] = "completed"),
                  !.just_completed = DetectResult(todoFile, todos).just_completed,
                  !.all_completed = DetectResult(todoFile, todos).all_completed,
                  !.prev_all_completed = Get(GetTodoState(todoFile), "all_completed", FALSE),
                  !.passed_gate1 = DetectResult(todoFile, todos).just_completed,
                  !.count_before = GetCompletionReviewCount(todoFile),
                  !.count_after_detect =
                      GetCompletionReviewCount(DetectFile(todoFile, todos)),
                  !.quotas_at_gate = quotas,
                  !.audit_len_at_start = Len(auditLog)]
    /\ IF DetectResult(todoFile, todos).just_completed
       THEN pc' = "gate2" /\ UNCHANGED output
       ELSE pc' = "done" /\ output' = SkipOutput
    /\ UNCHANGED <<config, now, today, quotas, quotaDate, auditLog, prevInv, rmw, qm, fn, det, sf, fo, qp, pr, ro>>

\* review_count > max_reviews
BudgetExhausted_OffByOne(review_count, max_reviews) == review_count > max_reviews

\* review_count >= max_reviews
BudgetExhausted(review_count, max_reviews) == review_count >= max_reviews

\* the budget branch returning without an audit event
Gate2Stop_NoAudit ==
    /\ pc = "gate2"
    /\ BudgetExhausted(GetCompletionReviewCount(todoFile), config.max_reviews)
    /\ inv' = [inv EXCEPT !.review_count = GetCompletionReviewCount(todoFile)]
    /\ hist' = [hist EXCEPT !.audit_event = "max_reviews_reached"]
    /\ output' = BudgetOutput
    /\ pc' = "done"
    /\ UNCHANGED <<config, now, today, todoFile, quotas, quotaDate, auditLog, nInv,
                   prevInv, rmw, qm, fn, det, sf, fo, qp, pr, ro>>

\* orchestrate, step 2, budget exhausted: audit max_reviews_reached, return
Gate2Stop ==
    /\ pc = "gate2"
    /\ BudgetExhausted(GetCompletionReviewCount(todoFile), config.max_reviews)
    /\ auditLog' = Append(auditLog, [event_type |-> "max_reviews_reached",
                                     review_count |-> GetCompletionReviewCount(todoFile)])
    /\ inv' = [inv EXCEPT !.review_count = GetCompletionReviewCount(todoFile)]
    /\ hist' = [hist EXCEPT !.audits = @ + 1, !.audit_event = "max_reviews_reached",
                            !.after_audit = TRUE]
    /\ output' = BudgetOutput
    /\ pc' = "done"
    /\ UNCHANGED <<config, now, today, todoFile, quotas, quotaDate, nInv, prevInv, rmw, qm, fn, det, sf, fo, qp, pr, ro>>

\* orchestrate, step 2, budget left: increment_completion_review_count
Gate2Pass ==
    /\ pc = "gate2"
    /\ ~BudgetExhausted(GetCompletionReviewCount(todoFile), config.max_reviews)
    /\ inv' = [inv EXCEPT !.review_count = GetCompletionReviewCount(todoFile)]
    /\ todoFile' = IncrementCompletionReviewCount(todoFile)
    /\ pc' = "review"
    /\ UNCHANGED <<config, now, today, quotas, quotaDate, auditLog, output, hist,
                   nInv, prevInv, rmw, qm, fn, det, sf, fo, qp, pr, ro>>

\* _run_parallel_reviews up to the executor.submit calls: the inline self
\* review, _init_external_adapters, one review call submitted per adapter
SubmitReviews ==
    /\ pc = "review"
    /\ LET adapters == InitExternalAdapters(config, quotas, now)
           qs == QuotasAfterInit(config, quotas, now)
           selfCalls == IF config.include_self_review
                        THEN <<Call(SelfName, 1, qs, now)>> ELSE <<>>
       IN  /\ quotas' = qs
           /\ quotaDate' = IF InitSaves(config, quotas, now) THEN today ELSE quotaDate
           /\ inv' = [inv EXCEPT
                        !.results = IF config.include_self_review THEN <<SelfVerdict>> ELSE <<>>,
                        !.external_adapters = adapters,
                        !.pending = SeqToSet(adapters)]
           /\ hist' = [hist EXCEPT
                         !.calls = selfCalls \o CallsOf(adapters, 1, qs, now),
                         !.count_at_first_call =
                             IF selfCalls = <<>> /\ adapters = <<>> THEN -1
                             ELSE GetCompletionReviewCount(todoFile)]
           /\ pc' = IF adapters = <<>> THEN "debate_gate" ELSE "collect"
    /\ UNCHANGED <<config, now, today, todoFile, auditLog, output, nInv, prevInv, rmw, qm, fn, det, sf, fo, qp, pr, ro>>

\* the as_completed loop: one future completes with verdict v, its quota
\* record is written, the verdict is appended
Complete(a, v) ==
    /\ pc = "collect"
    /\ a \in inv.pending
    /\ v \in ExternalOutcomes(a)
    /\ quotas' = [quotas EXCEPT ![a] = IF v.success THEN RecordSuccess(@)
                                       ELSE RecordFailure(@, v.error, now)]
    /\ quotaDate' = today
    /\ inv' = [inv EXCEPT !.results = Append(@, v), !.pending = @ \ {a}]
    /\ hist' = [hist EXCEPT !.verdicts_seen = @ \cup {v}]
    /\ pc' = IF inv.pending = {a} THEN "debate_gate" ELSE "collect"
    /\ UNCHANGED <<config, now, today, todoFile, auditLog, output, nInv, prevInv, rmw, qm, fn, det, sf, fo, qp, pr, ro>>

\* the as_completed loop, except branch: the future of adapter a raised e;
\* record_failure(adapter.name, str(e)) and a failed ReviewResult is appended
CompleteRaises_NoVerdict(a, e) ==
    /\ pc = "collect"
    /\ a \in inv.pending
    /\ e \in ReviewErrors
    /\ quotas' = [quotas EXCEPT ![a] = RecordFailure(@, e, now)]
    /\ quotaDate' = today
    /\ inv' = [inv EXCEPT !.pending = @ \ {a}]
    /\ hist' = [hist EXCEPT !.raised = @ \cup {a}]
    /\ pc' = IF inv.pending = {a} THEN "debate_gate" ELSE "collect"
    /\ UNCHANGED <<config, now, today, todoFile, auditLog, output, nInv, prevInv, rmw, qm, fn, det, sf, fo, qp, pr, ro>>

CompleteRaises(a, e) ==
    /\ pc = "collect"
    /\ a \in inv.pending
    /\ e \in ReviewErrors
    /\ quotas' = [quotas EXCEPT ![a] = RecordFailure(@, e, now)]
    /\ quotaDate' = today
    /\ inv' = [inv EXCEPT !.results = Append(@, FailedVerdict(a, e)),
                          !.pending = @ \ {a}]
    /\ hist' = [hist EXCEPT !.verdicts_seen = @ \cup {FailedVerdict(a, e)},
                            !.raised = @ \cup {a}]
    /\ pc' = IF inv.pending = {a} THEN "debate_gate" ELSE "collect"
    /\ UNCHANGED <<config, now, today, todoFile, auditLog, output, nInv, prevInv, rmw, qm, fn, det, sf, fo, qp, pr, ro>>

\* the debate's verdicts appended to the whole round-1 list
ReplaceResults_KeepsRound1(results, debate_result) ==
    results \o debate_result.results

\* results = self_results + debate_result.results
ReplaceResults(results, debate_result) ==
    SelectResults(results, TRUE, FALSE) \o debate_result.results

\* the vote's DebateRound numbered by the loop's end value
VoteRound_PastLastRound(cfg, current_results) ==
    DebateRound(cfg.max_rounds + 2, current_results, FALSE,
                WeightedVote(cfg, current_results))

\* run_debate, after the round loop: no consensus, the weighted vote decides
VoteRound(cfg, current_results) ==
    DebateRound(cfg.max_rounds + 1, current_results, FALSE,
                WeightedVote(cfg, current_results))

\* orchestrate, step 4.5, no debate
SkipDebate ==
    /\ pc = "debate_gate"
    /\ LET external_results == SelectResults(inv.results, FALSE, TRUE)
       IN  external_results = <<>> \/ ~NeedsDebate(config, external_results).needs
    /\ pc' = "audit"
    /\ UNCHANGED <<config, now, today, todoFile, quotas, quotaDate, auditLog, inv,
                   output, hist, nInv, prevInv, rmw, qm, fn, det, sf, fo, qp, pr, ro>>

\* orchestrate, step 4.5, debate needed: run_debate is entered with
\* self.external_adapters and the successful round-1 external verdicts; its
\* loop over range(2, max_rounds + 2) starts, or is empty and the vote over
\* the round-1 verdicts is returned
StartDebate ==
    /\ pc = "debate_gate"
    /\ LET external_results == SelectResults(inv.results, FALSE, TRUE)
           reason == NeedsDebate(config, external_results).reason
           vote == VoteRound(config, external_results)
       IN  /\ external_results # <<>>
           /\ NeedsDebate(config, external_results).needs
           /\ IF 2 < config.max_rounds + 2
              THEN /\ inv' = [inv EXCEPT !.reason = reason,
                                         !.round_num = 2, !.idx = 1,
                                         !.current_results = external_results,
                                         !.new_results = <<>>]
                   /\ pc' = "debate"
              ELSE /\ inv' = [inv EXCEPT !.reason = reason,
                                         !.current_results = external_results,
                                         !.debate_result = vote,
                                         !.results = ReplaceResults(inv.results, vote)]
                   /\ pc' = "audit"
    /\ hist' = [hist EXCEPT !.debated = TRUE,
                            !.prev_round = IF 2 < config.max_rounds + 2
                                           THEN SelectResults(inv.results, FALSE, FALSE)
                                           ELSE <<>>]
    /\ UNCHANGED <<config, now, today, todoFile, quotas, quotaDate, auditLog, output,
                   nInv, prevInv, rmw, qm, fn, det, sf, fo, qp, pr, ro>>

\* run_debate, inner loop: the adapter has peers to answer, review is called
DebateCall(v) ==
    /\ pc = "debate"
    /\ inv.idx <= Len(inv.external_adapters)
    /\ LET a == inv.external_adapters[inv.idx]
       IN  /\ OtherResults(inv.current_results, a) # <<>>
           /\ v \in ExternalOutcomes(a)
           /\ hist' = [hist EXCEPT
                         !.calls = Append(@, Call(a, inv.round_num, quotas, now)),
                         !.verdicts_seen = @ \cup {v}]
    /\ inv' = [inv EXCEPT !.new_results = Append(@, v), !.idx = @ + 1,
                          !.other_results =
                              OtherResults(inv.current_results,
                                           inv.external_adapters[inv.idx])]
    /\ UNCHANGED <<config, now, today, todoFile, quotas, quotaDate, auditLog, pc,
                   output, nInv, prevInv, rmw, qm, fn, det, sf, fo, qp, pr, ro>>

\* run_debate, inner loop: no other results for this adapter, continue
DebateSkipAdapter ==
    /\ pc = "debate"
    /\ inv.idx <= Len(inv.external_adapters)
    /\ OtherResults(inv.current_results, inv.external_adapters[inv.idx]) = <<>>
    /\ inv' = [inv EXCEPT !.idx = @ + 1, !.other_results = <<>>]
    /\ UNCHANGED <<config, now, today, todoFile, quotas, quotaDate, auditLog, pc,
                   output, hist, nInv, prevInv, rmw, qm, fn, det, sf, fo, qp, pr, ro>>

\* the round loop going on past a round that reached consensus
RoundResult_NoEarlyReturn(cfg, round_num, current_results, new_results) ==
    IF new_results = <<>> THEN VoteRound(cfg, current_results)
    ELSE IF round_num + 1 < cfg.max_rounds + 2 THEN NoDebate
    ELSE IF CheckConsensus(new_results).consensus
         THEN DebateRound(round_num, new_results, TRUE, CheckConsensus(new_results).severity)
    ELSE VoteRound(cfg, new_results)

\* run_debate, end of a round: the DebateRound returned, or NoDebate when
\* the loop goes on to the next round
RoundResult(cfg, round_num, current_results, new_results) ==
    IF new_results = <<>> THEN VoteRound(cfg, current_results)
    ELSE IF CheckConsensus(new_results).consensus
         THEN DebateRound(round_num, new_results, TRUE, CheckConsensus(new_results).severity)
    ELSE IF round_num + 1 < cfg.max_rounds + 2 THEN NoDebate
    ELSE VoteRound(cfg, new_results)

\* history: the successful verdicts of a round lie at most one step apart
Agreed(rs) ==
    LET ords == {OrderIndex(rs[i].severity) : i \in {j \in 1..Len(rs) : rs[j].success}}
    IN  ords # {} /\ \A m, n \in ords : m - n <= 1

\* run_debate, end of a round, and (when run_debate returns) the
\* replacement of the external verdicts in orchestrate
DebateRoundEnd ==
    /\ pc = "debate"
    /\ inv.idx > Len(inv.external_adapters)
    /\ LET res == RoundResult(config, inv.round_num, inv.current_results, inv.new_results)
       IN  /\ IF res.present
              THEN /\ inv' = [inv EXCEPT !.debate_result = res,
                                         !.current_results = res.results,
                                         !.new_results = <<>>,
                                         !.other_results = <<>>,
                                         !.results = ReplaceResults(inv.results, res)]
                   /\ pc' = "audit"
              ELSE /\ inv' = [inv EXCEPT !.current_results = inv.new_results,
                                         !.new_results = <<>>,
                                         !.other_results = <<>>,
                                         !.round_num = @ + 1, !.idx = 1]
                   /\ pc' = "debate"
           /\ hist' = [hist EXCEPT !.rounds = Append(@,
                           [num |-> inv.round_num,
                            consensus |-> Agreed(inv.new_results)]),
                                   !.prev_round = IF res.present THEN <<>>
                                                  ELSE inv.new_results]
    /\ UNCHANGED <<config, now, today, todoFile, quotas, quotaDate, auditLog, output,
                   nInv, prevInv, rmw, qm, fn, det, sf, fo, qp, pr, ro>>

\* orchestrate, steps 5 and 6: the completion_review audit event is
\* appended, then _build_output(results, context, debate_result) is returned
\* history of an invocation whose audit write raised: what the process held
\* is gone with it; kept are the event it tried to write and the decision
\* the next statement would have returned
CrashHist(event, decision) ==
    [NoHist EXCEPT !.complete = hist.complete,
                   !.audit_len_at_start = hist.audit_len_at_start,
                   !.audit_event = event,
                   !.audit_failed = TRUE,
                   !.decision = decision]

\* orchestrate, Gate 2 stop: AuditLogger.log raises on open or write (an
\* OSError); nothing catches it in orchestrate or main, so the process ends
\* with a traceback and prints no decision
Gate2AuditFails ==
    /\ pc = "gate2"
    /\ BudgetExhausted(GetCompletionReviewCount(todoFile), config.max_reviews)
    /\ inv' = NoInv
    /\ hist' = CrashHist("max_reviews_reached", BudgetOutput)
    /\ pc' = "crashed"
    /\ UNCHANGED <<config, now, today, todoFile, quotas, quotaDate, auditLog, output,
                   nInv, prevInv, rmw, qm, fn, det, sf, fo, qp, pr, ro>>

\* orchestrate, step 5: AuditLogger.log raises; as in Gate2AuditFails
AuditFails ==
    /\ pc = "audit"
    /\ inv' = NoInv
    /\ hist' = CrashHist("completion_review", BuildOutput(inv.results, inv.debate_result))
    /\ pc' = "crashed"
    /\ UNCHANGED <<config, now, today, todoFile, quotas, quotaDate, auditLog, output,
                   nInv, prevInv, rmw, qm, fn, det, sf, fo, qp, pr, ro>>

AuditAndReturn ==
    /\ pc = "audit"
    /\ auditLog' = Append(auditLog, [event_type |-> "completion_review",
                                     review_count |-> inv.review_count + 1])
    /\ hist' = [hist EXCEPT !.audits = @ + 1, !.audit_event = "completion_review",
                            !.after_audit = TRUE,
                            !.final_severity = FinalSeverity(inv.results, inv.debate_result)]
    /\ output' = BuildOutput(inv.results, inv.debate_result)
    /\ pc' = "done"
    /\ UNCHANGED <<config, now, today, todoFile, quotas, quotaDate, inv,
                   nInv, prevInv, rmw, qm, fn, det, sf, fo, qp, pr, ro>>

\* history of an invocation that never reached detect_completion: the todo
\* list of the invocation before it stands
NoTodosHist(stdin) ==
    [NoHist EXCEPT !.complete = prevInv.complete,
                   !.audit_len_at_start = Len(auditLog),
                   !.stdin = stdin]

\* main: json.load(sys.stdin) raises JSONDecodeError; the parse-failure
\* decision is printed and the process exits with status 0
MainParseFails ==
    /\ pc = "idle"
    /\ hist' = NoTodosHist("not_json")
    /\ output' = ParseFailedOutput
    /\ pc' = "done"
    /\ UNCHANGED <<config, now, today, todoFile, quotas, quotaDate, auditLog, inv,
                   nInv, prevInv, rmw, qm, fn, det, sf, fo, qp, pr, ro>>

\* main: stdin holds JSON that is not an object of the hook's shape (a list,
\* "tool_input": null, a todo that is not an object); orchestrate raises
\* AttributeError on .get before anything is stored, nothing catches it and
\* the process ends with a traceback
MainBadInput ==
    /\ pc = "idle"
    /\ hist' = NoTodosHist("not_hook_input")
    /\ pc' = "crashed"
    /\ UNCHANGED <<config, now, today, todoFile, quotas, quotaDate, auditLog, inv,
                   output, nInv, prevInv, rmw, qm, fn, det, sf, fo, qp, pr, ro>>

\* main: the decision is printed and the hook process ends
Exit ==
    /\ pc \in {"done", "crashed"}
    /\ pc' = "idle"
    /\ prevInv' = [complete |-> hist.complete]
    /\ inv' = NoInv
    /\ hist' = NoHist
    /\ output' = SkipOutput
    /\ UNCHANGED <<config, now, today, todoFile, quotas, quotaDate, auditLog, nInv, rmw, qm, fn, det, sf, fo, qp, pr, ro>>

\* the clock steps of the model
TickSteps == {CooldownMinutes \div 2}

\* wall-clock time passes (the clock starts with the first invocation)
Tick(d) ==
    /\ pc = "idle"
    /\ nInv >= 1
    /\ now + d <= MaxTime
    /\ now' = now + d
    /\ UNCHANGED <<config, today, todoFile, quotas, quotaDate, auditLog, pc, inv,
                   output, hist, nInv, prevInv, rmw, qm, fn, det, sf, fo, qp, pr, ro>>

\* a new hook process: CompletionOrchestrator.__init__ builds a QuotaMonitor
\* (_load_state) and selects the external adapters once
NewProcess ==
    /\ pc = "idle"
    /\ nInv < InvocationBound(config)
    /\ LET loaded == LoadQuotas(quotas, quotaDate, today)
       IN  /\ quotas' = QuotasAfterInit(config, loaded, now)
           /\ quotaDate' = IF quotaDate # today \/ InitSaves(config, loaded, now)
                           THEN today ELSE quotaDate
    /\ UNCHANGED <<config, now, today, todoFile, auditLog, pc, inv, output, hist,
                   nInv, prevInv, rmw, qm, fn, det, sf, fo, qp, pr, ro>>

\* the todo lists explored: every count of completed and of pending todos up
\* to MaxTodos entries (no operation depends on the order of the entries)
TodoLists ==
    { [i \in 1..n |-> IF i <= c THEN "completed" ELSE "pending"] :
        n \in 0..MaxTodos, c \in 0..MaxTodos } \cap SeqsUpTo(TodoStatuses, MaxTodos)

Next ==
    \/ \E todos \in TodoLists : Start(todos)
    \/ Gate2Stop
    \/ Gate2Pass
    \/ SubmitReviews
    \/ \E a \in ExternalNames : \E v \in ExternalOutcomes(a) : Complete(a, v)
    \/ \E a \in ExternalNames : \E e \in ReviewErrors : CompleteRaises(a, e)
    \/ SkipDebate
    \/ StartDebate
    \/ \E a \in ExternalNames : \E v \in ExternalOutcomes(a) : DebateCall(v)
    \/ DebateSkipAdapter
    \/ DebateRoundEnd
    \/ AuditAndReturn
    \/ Gate2AuditFails
    \/ AuditFails
    \/ MainParseFails
    \/ MainBadInput
    \/ Exit
    \/ Tick(CooldownMinutes)
    \/ NewProcess

Spec == Init /\ [][Next]_vars

----------------------------------------------------------------------------
(* state_manager.py : concurrent callers of increment_retry_count and of    *)
(* increment_completion_review_count on one (session, key).  _read_state    *)
(* and _write_state each take the FileLock for their own with-block only.   *)
(* rmw.real_lock tells the filelock package's lock from the fallback class  *)
(* whose __enter__ and __exit__ do nothing.                                 *)

\* the variables of the orchestration, which these callers leave alone
orchestrationVars ==
    <<config, todoFile, auditLog, pc, inv, output, hist, nInv, prevInv>>

CounterKinds == {"retry", "review_count"}

Callers == 1..rmw.n

NoHolder == 0

\* FileLock.__enter__ can return
LockFree == ~rmw.real_lock \/ rmw.lock = NoHolder

\* the lock holder once caller p has entered a with-block
Holder(p) == IF rmw.real_lock THEN p ELSE NoHolder

InitRMW ==
    /\ config = DefaultConfig
    /\ now = 0
    /\ today = 0
    /\ todoFile = EmptyDict
    /\ quotas = [a \in ExternalNames |-> AbsentQuota]
    /\ quotaDate = 0
    /\ auditLog = <<>>
    /\ pc = "idle"
    /\ inv = NoInv
    /\ output = SkipOutput
    /\ hist = NoHist
    /\ nInv = 0
    /\ prevInv = [complete |-> FALSE]
    /\ ro = "unused"
    /\ pr = "unused"
    /\ qp = "unused"
    /\ fo = "unused"
    /\ qm = "unused"
    /\ fn = "unused"
    /\ det = "unused"
    /\ sf = "unused"
    /\ \E kind \in CounterKinds, v \in 0..MaxStored, n \in 1..MaxCallers, real \in BOOLEAN :
           rmw = [kind |-> kind, start |-> v, stored |-> v, n |-> n,
                  real_lock |-> real, lock |-> NoHolder,
                  callers |-> [p \in 1..n |-> [pc |-> "start", state |-> 0, ret |-> -1]]]

\* _read_state: with FileLock(...) entered
EnterRead(p) ==
    /\ p \in Callers
    /\ rmw.callers[p].pc = "start"
    /\ LockFree
    /\ rmw' = [rmw EXCEPT !.lock = Holder(p), !.callers[p].pc = "in_read"]
    /\ UNCHANGED <<orchestrationVars, now, today, quotas, quotaDate, qm, fn, det, sf, fo, qp, pr, ro>>

\* _read_state: the file is read and the with-block left
ReadState(p) ==
    /\ p \in Callers
    /\ rmw.callers[p].pc = "in_read"
    /\ rmw' = [rmw EXCEPT !.lock = NoHolder,
                          !.callers[p].pc = "read",
                          !.callers[p].state = rmw.stored]
    /\ UNCHANGED <<orchestrationVars, now, today, quotas, quotaDate, qm, fn, det, sf, fo, qp, pr, ro>>

\* state[key] = state.get(key, 0) + 1, then _write_state: with FileLock(...)
\* entered
EnterWrite(p) ==
    /\ p \in Callers
    /\ rmw.callers[p].pc = "read"
    /\ LockFree
    /\ rmw' = [rmw EXCEPT !.lock = Holder(p),
                          !.callers[p].pc = "in_write",
                          !.callers[p].state = @ + 1]
    /\ UNCHANGED <<orchestrationVars, now, today, quotas, quotaDate, qm, fn, det, sf, fo, qp, pr, ro>>

\* _write_state: the file is written, the with-block left, and the
\* increment returns state[key]
WriteState(p) ==
    /\ p \in Callers
    /\ rmw.callers[p].pc = "in_write"
    /\ rmw' = [rmw EXCEPT !.lock = NoHolder,
                          !.stored = rmw.callers[p].state,
                          !.callers[p].pc = "returned",
                          !.callers[p].ret = rmw.callers[p].state]
    /\ UNCHANGED <<orchestrationVars, now, today, quotas, quotaDate, qm, fn, det, sf, fo, qp, pr, ro>>

NextRMW ==
    \/ \E p \in 1..MaxCallers : EnterRead(p)
    \/ \E p \in 1..MaxCallers : ReadState(p)
    \/ \E p \in 1..MaxCallers : EnterWrite(p)
    \/ \E p \in 1..MaxCallers : WriteState(p)

SpecRMW == InitRMW /\ [][NextRMW]_vars

----------------------------------------------------------------------------
(* quota_monitor.py : the QuotaMonitor interface called directly, with the  *)
(* clock and the local date moving between calls.  qm keeps, per adapter,   *)
(* the time of the quota-keyword failure whose cooldown is being watched    *)
(* (armed), whether that adapter's records were left alone since (clean),   *)
(* and what the latest is_available call saw and returned (last).           *)

\* no failure is being watched (the out-of-range time NoCooldown also uses)
NotArmed == NoCooldown

\* history: the arguments of the record_failure call that the latest step made,
\* if it made one
NoFailure == [adapter |-> "none", error |-> "none"]

NoCheck ==
    [adapter |-> "none", at |-> 0, result |-> TRUE, armed |-> NotArmed, clean |-> TRUE]

InitQuota ==
    /\ config = DefaultConfig
    /\ now = 0
    /\ today = 0
    /\ todoFile = EmptyDict
    /\ quotas = [a \in ExternalNames |-> AbsentQuota]
    /\ quotaDate = 0
    /\ auditLog = <<>>
    /\ pc = "idle"
    /\ inv = NoInv
    /\ output = SkipOutput
    /\ hist = NoHist
    /\ nInv = 0
    /\ prevInv = [complete |-> FALSE]
    /\ ro = "unused"
    /\ pr = "unused"
    /\ qp = "unused"
    /\ fo = "unused"
    /\ rmw = "unused"
    /\ fn = "unused"
    /\ det = "unused"
    /\ sf = "unused"
    /\ qm = [ops |-> 0,
             armed |-> [a \in ExternalNames |-> NotArmed],
             clean |-> [a \in ExternalNames |-> TRUE],
             last |-> NoCheck,
             fail |-> NoFailure,
             \* loaded: the latest step was a load of the quota file
             loaded |-> FALSE]

\* QuotaMonitor.record_success(a)
QRecordSuccess(a) ==
    /\ qm.ops < MaxQuotaOps
    /\ quotas' = [quotas EXCEPT ![a] = RecordSuccess(@)]
    /\ quotaDate' = today
    /\ qm' = [qm EXCEPT !.ops = @ + 1, !.armed[a] = NotArmed, !.clean[a] = TRUE,
                        !.fail = NoFailure, !.loaded = FALSE]
    /\ UNCHANGED <<orchestrationVars, now, today, rmw, fn, det, sf, fo, qp, pr, ro>>

\* QuotaMonitor.record_failure(a, e)
QRecordFailure(a, e) ==
    /\ qm.ops < MaxQuotaOps
    /\ quotas' = [quotas EXCEPT ![a] = RecordFailure(@, e, now)]
    /\ quotaDate' = today
    /\ qm' = IF qm.armed[a] = NotArmed
             THEN [qm EXCEPT !.ops = @ + 1,
                             !.armed[a] = IF IsQuotaError(e) THEN now ELSE NotArmed,
                             !.clean[a] = TRUE,
                             !.fail = [adapter |-> a, error |-> e],
                             !.loaded = FALSE]
             ELSE [qm EXCEPT !.ops = @ + 1, !.clean[a] = FALSE,
                             !.fail = [adapter |-> a, error |-> e],
                             !.loaded = FALSE]
    /\ UNCHANGED <<orchestrationVars, now, today, rmw, fn, det, sf, fo, qp, pr, ro>>

\* QuotaMonitor.is_available(a)
QIsAvailable(a) ==
    /\ quotas' = [quotas EXCEPT ![a] = IsAvailableRecord(@, now)]
    /\ quotaDate' = IF CooldownExpired(quotas[a], now) THEN today ELSE quotaDate
    /\ qm' = [qm EXCEPT
                !.last = [adapter |-> a, at |-> now,
                          result |-> IsAvailable(quotas[a], now),
                          armed |-> qm.armed[a], clean |-> qm.clean[a]],
                !.armed[a] = IF @ # NotArmed /\ now >= @ + CooldownMinutes
                             THEN NotArmed ELSE @,
                !.fail = NoFailure,
                !.loaded = FALSE]
    /\ UNCHANGED <<orchestrationVars, now, today, rmw, fn, det, sf, fo, qp, pr, ro>>

\* wall-clock time passes
QTick(d) ==
    /\ now + d <= MaxTime
    /\ now' = now + d
    /\ qm' = [qm EXCEPT !.fail = NoFailure, !.loaded = FALSE]
    /\ UNCHANGED <<orchestrationVars, today, quotas, quotaDate, rmw, fn, det, sf, fo, qp, pr, ro>>

\* the local date changes
QMidnight ==
    /\ today < MaxDay
    /\ today' = today + 1
    /\ qm' = [qm EXCEPT !.fail = NoFailure, !.loaded = FALSE]
    /\ UNCHANGED <<orchestrationVars, now, quotas, quotaDate, rmw, fn, det, sf, fo, qp, pr, ro>>

\* QuotaMonitor.__init__ in a new process: _load_state
QReload ==
    /\ quotas' = LoadQuotas(quotas, quotaDate, today)
    /\ quotaDate' = today
    /\ qm' = [qm EXCEPT !.clean = [a \in ExternalNames |->
                                      IF quotaDate # today /\ qm.armed[a] # NotArmed
                                      THEN FALSE ELSE @[a]],
                        !.loaded = TRUE,
                        !.fail = NoFailure]
    /\ UNCHANGED <<orchestrationVars, now, today, rmw, fn, det, sf, fo, qp, pr, ro>>

NextQuota ==
    \/ \E a \in ExternalNames : QRecordSuccess(a)
    \/ \E a \in ExternalNames, e \in ErrorIds : QRecordFailure(a, e)
    \/ \E a \in ExternalNames : QIsAvailable(a)
    \/ \E d \in TickSteps : QTick(d)
    \/ QMidnight
    \/ QReload

SpecQuota == InitQuota /\ [][NextQuota]_vars

----------------------------------------------------------------------------
(* debate_orchestrator.py : needs_debate, _check_consensus and              *)
(* _weighted_vote called on their own, for every configuration of the debate *)
(* switches and every list of up to MaxResults verdicts.                    *)

\* the verdicts a result list can hold
VerdictPool == {SelfVerdict} \cup UNION {ExternalOutcomes(a) : a \in ExternalNames}

\* conflict_resolution.weights: absent, one adapter weighted, the other one
\* weighted
FnWeights ==
    { [keys |-> {}, weights |-> [a \in ExternalNames |-> 1]],
      [keys |-> {"copilot"}, weights |-> [a \in ExternalNames |-> IF a = "copilot" THEN 2 ELSE 1]],
      [keys |-> {"gemini"}, weights |-> [a \in ExternalNames |-> IF a = "gemini" THEN 3 ELSE 1]] }

\* config.json contents that differ in the debate switches and the weights
FnConfigs ==
    { [DefaultConfig EXCEPT !.debate_enabled = en, !.trigger_on_high = th,
                            !.trigger_on_disagreement = td,
                            !.weight_keys = wt.keys, !.weights = wt.weights] :
        en \in BOOLEAN, th \in BOOLEAN, td \in BOOLEAN, wt \in FnWeights }

NoCall == [op |-> "none", needs |-> FALSE, consensus |-> FALSE, severity |-> "None"]

InitDebateFn ==
    /\ config \in FnConfigs
    /\ now = 0
    /\ today = 0
    /\ todoFile = EmptyDict
    /\ quotas = [a \in ExternalNames |-> AbsentQuota]
    /\ quotaDate = 0
    /\ auditLog = <<>>
    /\ pc = "idle"
    /\ inv = NoInv
    /\ output = SkipOutput
    /\ hist = NoHist
    /\ nInv = 0
    /\ prevInv = [complete |-> FALSE]
    /\ ro = "unused"
    /\ pr = "unused"
    /\ qp = "unused"
    /\ fo = "unused"
    /\ rmw = "unused"
    /\ qm = "unused"
    /\ det = "unused"
    /\ sf = "unused"
    /\ \E rs \in SeqsUpTo(VerdictPool, MaxResults) : fn = [results |-> rs, ret |-> NoCall]

\* DebateOrchestrator.needs_debate(results)
CallNeedsDebate ==
    /\ fn.ret.op = "none"
    /\ fn' = [fn EXCEPT !.ret = [op |-> "needs_debate",
                                 needs |-> NeedsDebate(config, fn.results).needs,
                                 consensus |-> FALSE, severity |-> "None"]]
    /\ UNCHANGED <<orchestrationVars, now, today, quotas, quotaDate, rmw, qm, det, sf, fo, qp, pr, ro>>

\* DebateOrchestrator._check_consensus(results)
CallCheckConsensus ==
    /\ fn.ret.op = "none"
    /\ fn' = [fn EXCEPT !.ret = [op |-> "check_consensus", needs |-> FALSE,
                                 consensus |-> CheckConsensus(fn.results).consensus,
                                 severity |-> CheckConsensus(fn.results).severity]]
    /\ UNCHANGED <<orchestrationVars, now, today, quotas, quotaDate, rmw, qm, det, sf, fo, qp, pr, ro>>

\* DebateOrchestrator._weighted_vote(results)
CallWeightedVote ==
    /\ fn.ret.op = "none"
    /\ fn' = [fn EXCEPT !.ret = [op |-> "weighted_vote", needs |-> FALSE,
                                 consensus |-> FALSE,
                                 severity |-> WeightedVote(config, fn.results)]]
    /\ UNCHANGED <<orchestrationVars, now, today, quotas, quotaDate, rmw, qm, det, sf, fo, qp, pr, ro>>

NextDebateFn ==
    \/ CallNeedsDebate
    \/ CallCheckConsensus
    \/ CallWeightedVote

SpecDebateFn == InitDebateFn /\ [][NextDebateFn]_vars

----------------------------------------------------------------------------
(* Concurrent detect_completion calls of hook processes of one session.    *)
(* get_todo_state and save_todo_state each take the todo lock on their own *)
(* (state_manager.py _read_state, _write_state).                           *)

\* the todo lists explored: detect_completion only tells an empty list, a
\* list with a todo that is not completed and a fully completed list apart
DetectLists == {<<>>, <<"pending">>, <<"completed">>}

\* the todo file when the calls start: none, or the snapshot an earlier
\* call saved
DetectStarts == {EmptyDict} \cup {SaveTodoState(NewSnapshot(t)) : t \in DetectLists \ {<<>>}}

DetectCallers == 1..det.n

NoTodoState == [all_completed |-> FALSE, just_completed |-> FALSE, total |-> 0, completed |-> 0]

\* FileLock.__enter__ on the todo lock can return
DetectLockFree == ~det.real_lock \/ det.lock = NoHolder

DetectHolder(p) == IF det.real_lock THEN p ELSE NoHolder

InitDetect ==
    /\ config = DefaultConfig
    /\ now = 0
    /\ today = 0
    /\ todoFile = EmptyDict
    /\ quotas = [a \in ExternalNames |-> AbsentQuota]
    /\ quotaDate = 0
    /\ auditLog = <<>>
    /\ pc = "idle"
    /\ inv = NoInv
    /\ output = SkipOutput
    /\ hist = NoHist
    /\ nInv = 0
    /\ prevInv = [complete |-> FALSE]
    /\ ro = "unused"
    /\ pr = "unused"
    /\ qp = "unused"
    /\ fo = "unused"
    /\ rmw = "unused"
    /\ qm = "unused"
    /\ fn = "unused"
    /\ sf = "unused"
    /\ \E start \in DetectStarts, n \in 1..MaxCallers, real \in BOOLEAN :
         \E todos \in [1..n -> DetectLists] :
           det = [start |-> start, file |-> start, n |-> n,
                  real_lock |-> real, lock |-> NoHolder,
                  callers |-> [p \in 1..n |->
                                 [pc |-> "start", todos |-> todos[p],
                                  prev_all_completed |-> FALSE,
                                  ret |-> NoTodoState]]]

\* detect_completion: `if not todos` returns without touching the state
DetectEmpty(p) ==
    /\ p \in DetectCallers
    /\ det.callers[p].pc = "start"
    /\ det.callers[p].todos = <<>>
    /\ det' = [det EXCEPT !.callers[p].pc = "returned",
                          !.callers[p].ret = DetectResult(det.file, <<>>)]
    /\ UNCHANGED <<orchestrationVars, now, today, quotas, quotaDate, rmw, qm, fn, sf, fo, qp, pr, ro>>

\* get_todo_state -> _read_state: with FileLock(...) entered
DetectEnterRead(p) ==
    /\ p \in DetectCallers
    /\ det.callers[p].pc = "start"
    /\ det.callers[p].todos # <<>>
    /\ DetectLockFree
    /\ det' = [det EXCEPT !.lock = DetectHolder(p), !.callers[p].pc = "in_read"]
    /\ UNCHANGED <<orchestrationVars, now, today, quotas, quotaDate, rmw, qm, fn, sf, fo, qp, pr, ro>>

\* _read_state: the file is read and the with-block left;
\* prev_all_completed = prev_state.get("all_completed", False)
DetectRead(p) ==
    /\ p \in DetectCallers
    /\ det.callers[p].pc = "in_read"
    /\ det' = [det EXCEPT !.lock = NoHolder,
                          !.callers[p].pc = "read",
                          !.callers[p].prev_all_completed =
                              Get(GetTodoState(det.file), "all_completed", FALSE)]
    /\ UNCHANGED <<orchestrationVars, now, today, quotas, quotaDate, rmw, qm, fn, sf, fo, qp, pr, ro>>

\* save_todo_state -> _write_state: with FileLock(...) entered
DetectEnterSave(p) ==
    /\ p \in DetectCallers
    /\ det.callers[p].pc = "read"
    /\ DetectLockFree
    /\ det' = [det EXCEPT !.lock = DetectHolder(p), !.callers[p].pc = "in_save"]
    /\ UNCHANGED <<orchestrationVars, now, today, quotas, quotaDate, rmw, qm, fn, sf, fo, qp, pr, ro>>

\* _write_state: the snapshot is written, the with-block left and the
\* TodoState returned
DetectSave(p) ==
    /\ p \in DetectCallers
    /\ det.callers[p].pc = "in_save"
    /\ LET todos == det.callers[p].todos
           all_completed == CountCompleted(todos) = Len(todos)
       IN  det' = [det EXCEPT
                     !.lock = NoHolder,
                     !.file = SaveTodoState(NewSnapshot(todos)),
                     !.callers[p].pc = "returned",
                     !.callers[p].ret =
                         [all_completed |-> all_completed,
                          just_completed |->
                              JustCompleted(all_completed,
                                            det.callers[p].prev_all_completed),
                          total |-> Len(todos),
                          completed |-> CountCompleted(todos)]]
    /\ UNCHANGED <<orchestrationVars, now, today, quotas, quotaDate, rmw, qm, fn, sf, fo, qp, pr, ro>>

NextDetect ==
    \/ \E p \in 1..MaxCallers : DetectEmpty(p)
    \/ \E p \in 1..MaxCallers : DetectEnterRead(p)
    \/ \E p \in 1..MaxCallers : DetectRead(p)
    \/ \E p \in 1..MaxCallers : DetectEnterSave(p)
    \/ \E p \in 1..MaxCallers : DetectSave(p)

SpecDetect == InitDetect /\ [][NextDetect]_vars

----------------------------------------------------------------------------
(* StateManager._read_state and _write_state on the file of one            *)
(* (session, state_type), with every content the file can have.            *)

\* the dictionaries written and read: empty, or one entry whose text is
\* plain ASCII or not
EmptyObject == [keys |-> {}, text |-> "none"]

StateObjects ==
    {EmptyObject} \cup {[keys |-> {"entry"}, text |-> t] : t \in {"ascii", "non_ascii"}}

\* the contents of the file: no file; the JSON text of a dictionary; text
\* that is not JSON (the empty file included); bytes that are no text in any
\* encoding the process may use
NoFile == [kind |-> "missing", data |-> EmptyObject]

ObjectFile(d) == [kind |-> "object", data |-> d]

BadText == [kind |-> "bad_text", data |-> EmptyObject]

BadBytes == [kind |-> "bad_bytes", data |-> EmptyObject]

FileContents == {NoFile, BadText, BadBytes} \cup {ObjectFile(d) : d \in StateObjects}

\* str.encode / bytes.decode in the encoding read_text() and write_text()
\* default to (the locale's): UTF-8 takes every text, an ASCII locale only
\* ASCII text
Encodable(d, utf8) == utf8 \/ d.text # "non_ascii"

Decodable(file, utf8) == file.kind # "bad_bytes" /\ Encodable(file.data, utf8)

\* _read_state: what the call gives
ReadStateFile(file, utf8) ==
    IF file.kind = "missing" THEN [raised |-> FALSE, value |-> EmptyObject]
    ELSE IF ~Decodable(file, utf8)
         THEN [raised |-> TRUE, value |-> EmptyObject]       \* UnicodeDecodeError
    ELSE IF file.kind = "bad_text"
         THEN [raised |-> FALSE, value |-> EmptyObject]      \* JSONDecodeError caught
    ELSE [raised |-> FALSE, value |-> file.data]

\* _write_state: the file it leaves (write_text truncates, then encodes)
WriteStateFile(d, utf8) ==
    IF Encodable(d, utf8) THEN ObjectFile(d) ELSE BadText

NoFileCall == [op |-> "none", raised |-> FALSE, value |-> EmptyObject, before |-> NoFile]

InitStateFile ==
    /\ config = DefaultConfig
    /\ now = 0
    /\ today = 0
    /\ todoFile = EmptyDict
    /\ quotas = [a \in ExternalNames |-> AbsentQuota]
    /\ quotaDate = 0
    /\ auditLog = <<>>
    /\ pc = "idle"
    /\ inv = NoInv
    /\ output = SkipOutput
    /\ hist = NoHist
    /\ nInv = 0
    /\ prevInv = [complete |-> FALSE]
    /\ ro = "unused"
    /\ pr = "unused"
    /\ qp = "unused"
    /\ fo = "unused"
    /\ rmw = "unused"
    /\ qm = "unused"
    /\ fn = "unused"
    /\ det = "unused"
    /\ \E file \in FileContents, utf8 \in BOOLEAN :
           sf = [file |-> file, utf8 |-> utf8, last |-> NoFileCall, prev |-> NoFileCall]

\* a call of _read_state
SFRead ==
    /\ sf' = [sf EXCEPT
                !.prev = sf.last,
                !.last = [op |-> "read",
                          raised |-> ReadStateFile(sf.file, sf.utf8).raised,
                          value |-> ReadStateFile(sf.file, sf.utf8).value,
                          before |-> sf.file]]
    /\ UNCHANGED <<orchestrationVars, now, today, quotas, quotaDate, rmw, qm, fn, det, fo, qp, pr, ro>>

\* a call of _write_state with the dictionary d
SFWrite(d) ==
    /\ sf' = [sf EXCEPT
                !.file = WriteStateFile(d, sf.utf8),
                !.prev = sf.last,
                !.last = [op |-> "write", raised |-> ~Encodable(d, sf.utf8),
                          value |-> d, before |-> sf.file]]
    /\ UNCHANGED <<orchestrationVars, now, today, quotas, quotaDate, rmw, qm, fn, det, fo, qp, pr, ro>>

\* the file is damaged or removed from outside the program
SFDamage(file) ==
    /\ file \in {NoFile, BadText, BadBytes}
    /\ sf.file # file
    /\ sf' = [sf EXCEPT !.file = file, !.prev = NoFileCall, !.last = NoFileCall]
    /\ UNCHANGED <<orchestrationVars, now, today, quotas, quotaDate, rmw, qm, fn, det, fo, qp, pr, ro>>

NextStateFile ==
    \/ SFRead
    \/ \E d \in StateObjects : SFWrite(d)
    \/ \E file \in FileContents : SFDamage(file)

SpecStateFile == InitStateFile /\ [][NextStateFile]_vars

----------------------------------------------------------------------------
(* completion_orchestrator.py : _run_parallel_reviews, the wait for the     *)
(* submitted reviews.  Time is counted in seconds from the submit; a review *)
(* returns before its adapter's timeout with a verdict, or at the timeout   *)
(* with the adapter's timeout verdict, or its call never returns (the socket *)
(* timeout bounds one read, not the whole response).                       *)

\* self.timeout = config.get("timeout_seconds", 60)
TimeoutSeconds == 60

\* the clock advances in steps of half a timeout
TickSeconds == TimeoutSeconds \div 2

\* the adapter lists _init_external_adapters can hand to the executor
FanOutAdapterLists == {<<"gemini", "copilot">>, <<"gemini">>, <<"copilot">>}

\* what adapter.review returns when elapsed seconds have gone by
ReviewOutcomesAt(a, elapsed) ==
    IF elapsed < TimeoutSeconds
    THEN ExternalOutcomes(a) \ {FailedVerdict(a, "timeout")}
    ELSE {FailedVerdict(a, "timeout")}

InitFanOut ==
    /\ config = DefaultConfig
    /\ now = 0
    /\ today = 0
    /\ todoFile = EmptyDict
    /\ quotas = [a \in ExternalNames |-> AbsentQuota]
    /\ quotaDate = 0
    /\ auditLog = <<>>
    /\ pc = "idle"
    /\ inv = NoInv
    /\ output = SkipOutput
    /\ hist = NoHist
    /\ nInv = 0
    /\ prevInv = [complete |-> FALSE]
    /\ ro = "unused"
    /\ pr = "unused"
    /\ qp = "unused"
    /\ rmw = "unused"
    /\ qm = "unused"
    /\ fn = "unused"
    /\ det = "unused"
    /\ sf = "unused"
    /\ \E as \in FanOutAdapterLists :
           fo = [adapters |-> as, pending |-> SeqToSet(as), hung |-> {},
                 results |-> <<>>, elapsed |-> 0, ticks |-> 0, returned |-> FALSE]

\* the as_completed loop: the future of adapter a is done with verdict v,
\* its quota record is written, the verdict is appended
FOComplete(a, v) ==
    /\ ~fo.returned
    /\ a \in fo.pending \ fo.hung
    /\ v \in ReviewOutcomesAt(a, fo.elapsed)
    /\ quotas' = [quotas EXCEPT ![a] = IF v.success THEN RecordSuccess(@)
                                       ELSE RecordFailure(@, v.error, now)]
    /\ quotaDate' = today
    /\ fo' = [fo EXCEPT !.results = Append(@, v), !.pending = @ \ {a}]
    /\ UNCHANGED <<orchestrationVars, now, today, rmw, qm, fn, det, sf, qp, pr, ro>>

\* the review call of adapter a blocks for good: its future is never done
FOHang(a) ==
    /\ ~fo.returned
    /\ a \in fo.pending \ fo.hung
    /\ fo' = [fo EXCEPT !.hung = @ \cup {a}]
    /\ UNCHANGED <<orchestrationVars, now, today, quotas, quotaDate, rmw, qm, fn, det, sf, qp, pr, ro>>

\* time passes while as_completed(futures) waits; a review that returns at
\* all has returned when its timeout is over
FOTick ==
    /\ ~fo.returned
    /\ fo.pending # {}
    /\ fo.ticks < MaxWaitTicks
    /\ fo.elapsed + TickSeconds > TimeoutSeconds => fo.pending \subseteq fo.hung
    /\ fo' = [fo EXCEPT !.elapsed = @ + TickSeconds, !.ticks = @ + 1]
    /\ UNCHANGED <<orchestrationVars, now, today, quotas, quotaDate, rmw, qm, fn, det, sf, qp, pr, ro>>

\* as_completed is exhausted and the executor shut down: return results
FOReturn ==
    /\ ~fo.returned
    /\ fo.pending = {}
    /\ fo' = [fo EXCEPT !.returned = TRUE]
    /\ UNCHANGED <<orchestrationVars, now, today, quotas, quotaDate, rmw, qm, fn, det, sf, qp, pr, ro>>

NextFanOut ==
    \/ \E a \in ExternalNames : \E v \in ExternalOutcomes(a) : FOComplete(a, v)
    \/ \E a \in ExternalNames : FOHang(a)
    \/ FOTick
    \/ FOReturn

SpecFanOut == InitFanOut /\ [][NextFanOut]_vars

----------------------------------------------------------------------------
(* quota_monitor.py : two hook processes, each with the QuotaMonitor its    *)
(* get_quota_monitor() built, working on the one quota_state.json.          *)

\* the hook processes running side by side
QuotaProcs == {"hook_a", "hook_b"}

\* get_quota_monitor() has not been called in the process
NotLoaded == [loaded |-> FALSE, quotas |-> [a \in ExternalNames |-> AbsentQuota]]

InitQuotaProcs ==
    /\ config = DefaultConfig
    /\ now = 0
    /\ today = 0
    /\ todoFile = EmptyDict
    /\ quotas = [a \in ExternalNames |-> AbsentQuota]
    /\ quotaDate = 0
    /\ auditLog = <<>>
    /\ pc = "idle"
    /\ inv = NoInv
    /\ output = SkipOutput
    /\ hist = NoHist
    /\ nInv = 0
    /\ prevInv = [complete |-> FALSE]
    /\ ro = "unused"
    /\ pr = "unused"
    /\ rmw = "unused"
    /\ qm = "unused"
    /\ fn = "unused"
    /\ det = "unused"
    /\ sf = "unused"
    /\ fo = "unused"
    /\ qp = [mem |-> [p \in QuotaProcs |-> NotLoaded],
             \* history: the record_* calls made on each adapter, by any process
             made |-> [a \in ExternalNames |-> 0],
             \* history: each process has made a record_* call
             recorded |-> {}]

\* QuotaMonitor.__init__ in process p: _load_state reads quota_state.json
\* into self.quotas (and writes the empty state when the date is not today's)
QPLoad(p) ==
    /\ ~qp.mem[p].loaded
    /\ qp' = [qp EXCEPT !.mem[p] = [loaded |-> TRUE,
                                    quotas |-> LoadQuotas(quotas, quotaDate, today)]]
    /\ quotas' = IF quotaDate # today THEN [a \in ExternalNames |-> AbsentQuota]
                 ELSE quotas
    /\ quotaDate' = today
    /\ UNCHANGED <<orchestrationVars, now, today, rmw, qm, fn, det, sf, fo, pr, ro>>

\* record_success(a) (e = "none") or record_failure(a, e) in process p: the
\* record of a in self.quotas is updated and _save_state writes the whole of
\* self.quotas over quota_state.json
QPRecord(p, a, e) ==
    /\ qp.mem[p].loaded
    /\ qp.made["gemini"] + qp.made["copilot"] < MaxQuotaOps
    /\ LET mine == [qp.mem[p].quotas EXCEPT
                      ![a] = IF e = "none" THEN RecordSuccess(@)
                             ELSE RecordFailure(@, e, now)]
       IN  /\ qp' = [qp EXCEPT !.mem[p].quotas = mine,
                               !.made[a] = @ + 1,
                               !.recorded = @ \cup {p}]
           /\ quotas' = mine
    /\ quotaDate' = today
    /\ UNCHANGED <<orchestrationVars, now, today, rmw, qm, fn, det, sf, fo, pr, ro>>

NextQuotaProcs ==
    \/ \E p \in QuotaProcs : QPLoad(p)
    \/ \E p \in QuotaProcs, a \in ExternalNames, e \in {"none"} \cup ReviewErrors :
           QPRecord(p, a, e)

SpecQuotaProcs == InitQuotaProcs /\ [][NextQuotaProcs]_vars

----------------------------------------------------------------------------
(* adapters/base.py : parse_response and _parse_text_response, called on    *)
(* one reviewer reply.  A reply is a text; the JSON value it holds, when it *)
(* holds one, is kept as a record with the types of the fields the parser   *)
(* reads.  Hangul syllables are written in Latin letters, one element per   *)
(* syllable.                                                                *)

UpperChar(c) ==
    IF \E i \in 1..Len(LowerChars) : LowerChars[i] = c
    THEN UpperChars[CHOOSE i \in 1..Len(LowerChars) : LowerChars[i] = c]
    ELSE c

\* str.upper()
Upper(s) == [i \in 1..Len(s) |-> UpperChar(s[i])]

\* Severity.value, as characters
SeverityChars(sev) ==
    CASE sev = "OK"       -> <<"O","K">>
      [] sev = "LOW"      -> <<"L","O","W">>
      [] sev = "MEDIUM"   -> <<"M","E","D","I","U","M">>
      [] sev = "HIGH"     -> <<"H","I","G","H">>
      [] sev = "CRITICAL" -> <<"C","R","I","T","I","C","A","L">>

\* the words _parse_text_response looks for, most severe first
text_keywords ==
    << [severity |-> "CRITICAL",
        words |-> {<<"c","r","i","t","i","c","a","l">>, <<"sim","gak">>, <<"bo","an","chwi","yak">>}],
       [severity |-> "HIGH",
        words |-> {<<"h","i","g","h">>, <<"nop","eum">>, <<"beo","geu">>, <<"o","ryu">>}],
       [severity |-> "MEDIUM",
        words |-> {<<"m","e","d","i","u","m">>, <<"jung","gan">>, <<"gae","seon">>}],
       [severity |-> "LOW",
        words |-> {<<"l","o","w">>, <<"naj","eum">>, <<"sa","so">>}] >>

\* the value of a "severity" key: missing, a string, a number or null
AbsentField == [type |-> "absent", chars |-> <<>>]
StringField(chars) == [type |-> "string", chars |-> chars]
NumberField == [type |-> "number", chars |-> <<>>]
NullField == [type |-> "null", chars |-> <<>>]

SeverityFields ==
    {AbsentField, NumberField, NullField}
        \cup {StringField(t) : t \in {<<"H","I","G","H">>, <<"h","i","g","h">>, <<"C","r","i","t","i","c","a","l">>, <<"L","O","W">>, <<"u","r","g","e","n","t">>}}

\* an element of an "issues" list: an object with its "severity" key, or a string
IssueItems ==
    {[type |-> "object", severity |-> f] :
        f \in {AbsentField, NumberField, StringField(<<"L","O","W">>)}}
        \cup {[type |-> "string", severity |-> AbsentField]}

\* the value of an "issues" key: missing, a list, a string, a number or null
IssuesFields ==
    {[type |-> "absent", items |-> <<>>, chars |-> <<>>],
     [type |-> "number", items |-> <<>>, chars |-> <<>>],
     [type |-> "null", items |-> <<>>, chars |-> <<>>],
     [type |-> "string", items |-> <<>>, chars |-> <<>>],
     [type |-> "string", items |-> <<>>, chars |-> <<"a","b","c">>]}
        \cup {[type |-> "list", items |-> items, chars |-> <<>>] :
                items \in SeqsUpTo(IssueItems, MaxIssues)}

\* a JSON value that is not an object, with its text
NonObjects ==
    {[type |-> "number", text |-> <<"5">>],
     [type |-> "list", text |-> <<"[","]">>],
     [type |-> "string", text |-> <<"\"","c","r","i","t","i","c","a","l","\"">>],
     [type |-> "null", text |-> <<"n","u","l","l">>]}

\* texts that are not JSON
PlainTexts ==
    {<<"C","r","i","t","i","c","a","l"," ","f","l","a","w">>, <<"H","I","G","H"," ","r","i","s","k">>, <<"c","o","u","l","d"," ","b","e"," ","i","m","p","r","o","v","e","d",":"," ","m","e","d","i","u","m">>, <<"f","o","l","l","o","w"," ","u","p">>,
     <<"l","o","o","k","s"," ","f","i","n","e">>, <<>>, <<"sim","gak">>}

\* the replies explored: a JSON object, another JSON value or a plain text,
\* bare or inside a code fence
Replies ==
    {[kind |-> "object", fenced |-> fc, severity |-> f, issues |-> g, text |-> <<>>] :
        fc \in BOOLEAN, f \in SeverityFields, g \in IssuesFields}
    \cup {[kind |-> v.type, fenced |-> fc, severity |-> AbsentField,
           issues |-> [type |-> "absent", items |-> <<>>, chars |-> <<>>],
           text |-> v.text] : fc \in BOOLEAN, v \in NonObjects}
    \cup {[kind |-> "text", fenced |-> fc, severity |-> AbsentField,
           issues |-> [type |-> "absent", items |-> <<>>, chars |-> <<>>],
           text |-> t] : fc \in BOOLEAN, t \in PlainTexts}

\* the reply as the adapter received it; "fence" is the three-backquote mark
ResponseText(reply) ==
    IF reply.fenced
    THEN <<"fence","j","s","o","n","\n">> \o reply.text \o <<"\n","fence">>
    ELSE reply.text

\* re.search(fence, optional json, object, fence): an object in a fence
FencedObject(reply) == reply.fenced /\ reply.kind = "object"

\* json.loads(response) succeeds: the text left after the fence search is JSON
IsJson(reply) ==
    IF reply.fenced THEN FencedObject(reply) ELSE reply.kind # "text"

\* Severity.from_string(value): the exception it lets through, or "none"
FromStringRaises(f) == IF f.type = "string" THEN "none" ELSE "AttributeError"

\* Severity.from_string(value) for a string
FromString(f) ==
    IF \E sev \in Severities : SeverityChars(sev) = Upper(f.chars)
    THEN CHOOSE sev \in Severities : SeverityChars(sev) = Upper(f.chars)
    ELSE "OK"

\* data.get("severity", "OK") / i.get("severity", "OK")
GetSeverity(f) == IF f.type = "absent" THEN StringField(SeverityChars("OK")) ELSE f

\* the exception building Issue(...) from one element of the list raises
IssueRaises(item) ==
    IF item.type # "object" THEN "AttributeError"
    ELSE FromStringRaises(GetSeverity(item.severity))

\* the exception the list comprehension over data.get("issues", []) raises
IssuesRaise(g) ==
    CASE g.type = "absent" -> "none"
      [] g.type \in {"number", "null"} -> "TypeError"
      [] g.type = "string" -> IF g.chars = <<>> THEN "none" ELSE "AttributeError"
      [] g.type = "list" ->
            IF \E i \in 1..Len(g.items) : IssueRaises(g.items[i]) # "none"
            THEN "AttributeError" ELSE "none"

\* the issues built, each carried as its severity
IssuesBuilt(g) ==
    [i \in 1..Len(g.items) |-> FromString(GetSeverity(g.items[i].severity))]

\* a parse call ended by an exception
Raised(exc) ==
    [raised |-> exc,
     verdict |-> [severity |-> "None", issues |-> <<>>, success |-> FALSE]]

\* a parse call that returned a ReviewResult
Returned(sev, issues) ==
    [raised |-> "none",
     verdict |-> [severity |-> sev, issues |-> issues, success |-> TRUE]]

\* LLMAdapter._parse_text_response
ParseTextResponse(text) ==
    LET response_lower == Lower(text)
        hit(k) == \E w \in text_keywords[k].words : Contains(response_lower, w)
        severity ==
            IF \E k \in 1..Len(text_keywords) : hit(k)
            THEN text_keywords[CHOOSE k \in 1..Len(text_keywords) :
                                 hit(k) /\ \A j \in 1..(k - 1) : ~hit(j)].severity
            ELSE "OK"
    IN  Returned(severity, <<severity>>)

\* LLMAdapter.parse_response: JSONDecodeError and KeyError go to the text
\* fallback, any other exception leaves the method
ParseResponse(reply) ==
    IF ~IsJson(reply) THEN ParseTextResponse(ResponseText(reply))
    ELSE IF reply.kind # "object" THEN Raised("AttributeError")
    ELSE IF FromStringRaises(GetSeverity(reply.severity)) # "none"
         THEN Raised(FromStringRaises(GetSeverity(reply.severity)))
    ELSE IF IssuesRaise(reply.issues) # "none" THEN Raised(IssuesRaise(reply.issues))
    ELSE Returned(FromString(GetSeverity(reply.severity)), IssuesBuilt(reply.issues))

NotParsed == [raised |-> "not_called",
              verdict |-> [severity |-> "None", issues |-> <<>>, success |-> FALSE]]

InitParse ==
    /\ config = DefaultConfig
    /\ now = 0
    /\ today = 0
    /\ todoFile = EmptyDict
    /\ quotas = [a \in ExternalNames |-> AbsentQuota]
    /\ quotaDate = 0
    /\ auditLog = <<>>
    /\ pc = "idle"
    /\ inv = NoInv
    /\ output = SkipOutput
    /\ hist = NoHist
    /\ nInv = 0
    /\ prevInv = [complete |-> FALSE]
    /\ ro = "unused"
    /\ rmw = "unused"
    /\ qm = "unused"
    /\ fn = "unused"
    /\ det = "unused"
    /\ sf = "unused"
    /\ fo = "unused"
    /\ qp = "unused"
    /\ \E reply \in Replies : pr = [reply |-> reply, ret |-> NotParsed]

\* adapter.parse_response(response)
CallParseResponse ==
    /\ pr.ret = NotParsed
    /\ pr' = [pr EXCEPT !.ret = ParseResponse(pr.reply)]
    /\ UNCHANGED <<orchestrationVars, now, today, quotas, quotaDate, rmw, qm, fn,
                   det, sf, fo, qp, ro>>

NextParse == CallParseResponse

SpecParse == InitParse /\ [][NextParse]_vars

----------------------------------------------------------------------------
(* review_orchestrator.py, state_manager.py : the stage reviews of            *)
(* ReviewOrchestrator with their retry, debounce and override bookkeeping,  *)
(* and the override calls of StateManager, over sequential invocations.     *)
(* A retry file is kept as the count of each stage, a missing key being the *)
(* 0 that state.get(stage, 0) reads.                                        *)

Sessions == {"s1", "s2"}

ReviewStages == {"code", "plan"}

\* debounce_config.get("stages", ["code"])
DebounceStages == {"code"}

\* the max_retries settings explored, by stage: stage_settings of a stage,
\* else rework_settings
RetryLimits ==
    { [code |-> 1, plan |-> 2],
      [code |-> 2, plan |-> 0] }

\* the skip counts handed to set_override
SkipCounts == (0 - 1)..MaxSkip

\* _read_state(session, "override") of a session without the file
NoOverride == [present |-> FALSE, skip_count |-> 0]

\* state.get("skip_count", 0)
GetSkipCount(state) == IF state.present THEN state.skip_count ELSE 0

\* StateManager.set_override : the file written
SetOverrideState(skip_count) == [present |-> TRUE, skip_count |-> skip_count]

\* the override consumed while skip_count is not negative
ConsumesOverride_AtZero(state) == GetSkipCount(state) >= 0

\* StateManager.check_and_consume_override : the value returned
ConsumesOverride(state) == GetSkipCount(state) > 0

\* StateManager.check_and_consume_override : the file it leaves
ConsumeOverride(state) ==
    IF ConsumesOverride(state)
    THEN [present |-> TRUE, skip_count |-> GetSkipCount(state) - 1]
    ELSE state

\* StateManager.get_retry_count
GetRetryCount(retry, stage) == retry[stage]

\* StateManager.increment_retry_count : the file written
IncrementRetryCount(retry, stage) == [retry EXCEPT ![stage] = @ + 1]

\* ReviewOrchestrator.resolve_conflict under the default policy "conservative"
ResolveConflict(results) ==
    IF Successful(results) = <<>> THEN "OK"
    ELSE HighestOf(SeveritiesOf(Successful(results)))

\* final_severity in [Severity.CRITICAL, Severity.HIGH]
NeedsRework(final_severity) == final_severity \in {"CRITICAL", "HIGH"}

\* retry_count < max_retries
RetryLeft(retry_count, max_retries) == retry_count < max_retries

\* ReviewOrchestrator.check_override : whether check_and_consume_override is
\* reached
ReachesConsume(override_enabled, env_skip) == override_enabled /\ ~env_skip

\* ReviewOrchestrator.check_override : the value returned
CheckOverride(override_enabled, env_skip, state) ==
    IF ~override_enabled THEN FALSE
    ELSE IF env_skip THEN TRUE
    ELSE ConsumesOverride(state)

\* the reviewers' verdict lists explored: all failed, and one list for each
\* of MEDIUM, HIGH and CRITICAL as the highest successful severity
ReviewResultLists ==
    { <<FailedVerdict("gemini", "timeout"), FailedVerdict("copilot", "timeout")>>,
      <<SuccessVerdict("gemini", "MEDIUM"), SuccessVerdict("copilot", "LOW")>>,
      <<SuccessVerdict("gemini", "HIGH"), FailedVerdict("copilot", "timeout")>>,
      <<SuccessVerdict("gemini", "OK"), SuccessVerdict("copilot", "CRITICAL")>> }

\* the list standing in for the reviews of an invocation that makes none
NoReviews == <<FailedVerdict("gemini", "timeout"), FailedVerdict("copilot", "timeout")>>

\* what the last operation was and how it ended
NoOp == [op |-> "none", session |-> "none", stage |-> "none", severity |-> "None",
         decision |-> "none", consumed |-> "not_called"]

\* history: the last set_override of a session and the
\* check_and_consume_override calls made since
NoGrant == [set |-> FALSE, n |-> 0, calls |-> 0]

Called(ret) == IF ret THEN "true" ELSE "false"

InitReview ==
    /\ config = DefaultConfig
    /\ now = 0
    /\ today = 0
    /\ todoFile = EmptyDict
    /\ quotas = [a \in ExternalNames |-> AbsentQuota]
    /\ quotaDate = 0
    /\ auditLog = <<>>
    /\ pc = "idle"
    /\ inv = NoInv
    /\ output = SkipOutput
    /\ hist = NoHist
    /\ nInv = 0
    /\ prevInv = [complete |-> FALSE]
    /\ rmw = "unused"
    /\ qm = "unused"
    /\ fn = "unused"
    /\ det = "unused"
    /\ sf = "unused"
    /\ fo = "unused"
    /\ qp = "unused"
    /\ pr = "unused"
    /\ \E limits \in RetryLimits, enabled \in BOOLEAN :
          ro = [max_retries |-> limits,
                override_enabled |-> enabled,
                retry |-> [s \in Sessions |-> [st \in ReviewStages |-> 0]],
                override |-> [s \in Sessions |-> NoOverride],
                last_call |-> [s \in Sessions |-> {}],
                blocks |-> [s \in Sessions |-> [st \in ReviewStages |-> 0]],
                grant |-> [s \in Sessions |-> NoGrant],
                ops |-> 0,
                last |-> NoOp]

ReviewUnchanged ==
    UNCHANGED <<orchestrationVars, now, today, quotas, quotaDate, rmw, qm, fn,
                det, sf, fo, qp, pr>>

\* state_manager.set_override(session_id, skip_count)
SetOverride(s, n) ==
    /\ ro.ops < MaxReviewOps
    /\ ro' = [ro EXCEPT !.override[s] = SetOverrideState(n),
                        !.grant[s] = [set |-> TRUE, n |-> n, calls |-> 0],
                        !.ops = @ + 1,
                        !.last = [NoOp EXCEPT !.op = "set_override", !.session = s]]
    /\ ReviewUnchanged

\* state_manager.check_and_consume_override(session_id)
CheckAndConsumeOverride(s) ==
    /\ ro.ops < MaxReviewOps
    /\ ro' = [ro EXCEPT !.override[s] = ConsumeOverride(ro.override[s]),
                        !.grant[s].calls = @ + 1,
                        !.ops = @ + 1,
                        !.last = [NoOp EXCEPT
                                    !.op = "check_and_consume_override",
                                    !.session = s,
                                    !.consumed = Called(ConsumesOverride(ro.override[s]))]]
    /\ ReviewUnchanged

\* ReviewOrchestrator.orchestrate(stage, hook_input) of session s:
\* env_skip is CLAUDE_SKIP_REVIEW = "1", within is a call inside the debounce
\* window of the stage's last call, results are the reviewers' verdicts,
\* audit_ok is the audit line being written; an input the invocation does
\* not read is held at one value
ReviewOrchestrate(s, stage, env_skip, within, results, audit_ok) ==
    /\ ro.ops < MaxReviewOps
    /\ env_skip => ro.override_enabled
    /\ within => /\ ~CheckOverride(ro.override_enabled, env_skip, ro.override[s])
                 /\ stage \in DebounceStages
                 /\ stage \in ro.last_call[s]
    /\ (within \/ CheckOverride(ro.override_enabled, env_skip, ro.override[s]))
          => results = NoReviews
    /\ LET skip == CheckOverride(ro.override_enabled, env_skip, ro.override[s])
           reaches == ReachesConsume(ro.override_enabled, env_skip)
           override_after == IF reaches THEN ConsumeOverride(ro.override[s])
                             ELSE ro.override[s]
           consumed == IF reaches THEN Called(ConsumesOverride(ro.override[s]))
                       ELSE "not_called"
           calls_after == IF reaches THEN ro.grant[s].calls + 1 ELSE ro.grant[s].calls
           final_severity == ResolveConflict(results)
           retry_count == GetRetryCount(ro.retry[s], stage)
           blocks == NeedsRework(final_severity)
                        /\ RetryLeft(retry_count, ro.max_retries[stage])
           done(decision, severity) ==
               [op |-> "orchestrate", session |-> s, stage |-> stage,
                severity |-> severity,
                decision |-> IF audit_ok THEN decision ELSE "raised",
                consumed |-> consumed]
       IN  IF skip
           THEN ro' = [ro EXCEPT !.override[s] = override_after,
                                 !.grant[s].calls = calls_after,
                                 !.ops = @ + 1,
                                 !.last = done("continue", "None")]
           ELSE IF within
           THEN /\ audit_ok
                /\ ro' = [ro EXCEPT !.override[s] = override_after,
                                    !.grant[s].calls = calls_after,
                                    !.ops = @ + 1,
                                    !.last = done("continue", "None")]
           ELSE ro' = [ro EXCEPT
                         !.override[s] = override_after,
                         !.grant[s].calls = calls_after,
                         !.last_call[s] = @ \cup {stage},
                         !.retry[s] = IF blocks THEN IncrementRetryCount(@, stage) ELSE @,
                         !.blocks[s][stage] = IF blocks /\ audit_ok THEN @ + 1 ELSE @,
                         !.ops = @ + 1,
                         !.last = done(IF blocks THEN "block" ELSE "continue",
                                       final_severity)]
    /\ ReviewUnchanged

NextReview ==
    \/ \E s \in Sessions, n \in SkipCounts : SetOverride(s, n)
    \/ \E s \in Sessions : CheckAndConsumeOverride(s)
    \/ \E s \in Sessions, stage \in ReviewStages, env_skip, within, audit_ok \in BOOLEAN,
          results \in ReviewResultLists :
          ReviewOrchestrate(s, stage, env_skip, within, results, audit_ok)

SpecReview == InitReview /\ [][NextReview]_vars

----------------------------------------------------------------------------
(* Properties under Spec *)

\* highest severity among the successful non-self verdicts of rs, OK if none
HighestExternal(rs) ==
    LET S == {i \in 1..Len(rs) : rs[i].success /\ ~rs[i].is_self_review}
    IN  IF S = {} THEN "OK"
        ELSE rs[CHOOSE i \in S : \A j \in S : OrderIndex(rs[j].severity) <= OrderIndex(rs[i].severity)].severity

\* a full review has returned its decision
Reviewed == pc = "done" /\ hist.audit_event = "completion_review"

\* C1: just_completed is true on exactly the first invocation of every
\* maximal run of invocations whose non-empty todo list is fully completed
\* (the invocation's list is complete and the previous invocation's was not)
C1_EdgePerRun ==
    pc # "idle" => (hist.just_completed <=> (hist.complete /\ ~prevInv.complete))

\* C2: the decision has continue=false exactly when the final severity (the
\* debate's when a debate ran, else the highest successful non-self verdict,
\* OK if none) is CRITICAL
C2_BlockIffFinalCritical ==
    Reviewed =>
        (output.continue = FALSE <=>
            (IF inv.debate_result.present THEN inv.debate_result.final_severity
             ELSE HighestExternal(inv.results)) = "CRITICAL")

C2_Witness ==
    Reviewed /\ inv.debate_result.present /\ output.continue = FALSE

\* some reviewer returned a successful external verdict of severity CRITICAL
\* during the running orchestration
SawCritical == \E v \in hist.verdicts_seen : v.success /\ v.severity = "CRITICAL"

\* C3 as stated: continue=false exactly when a successful external verdict
\* of the orchestration was CRITICAL, debate or not
C3_BlockIffCriticalSeen ==
    pc = "done" => (output.continue = FALSE <=> SawCritical)

\* C3 amended: continue=false only if some successful external verdict of
\* the orchestration was CRITICAL; when no debate ran the converse holds
\* too; when a debate ran the decision is that of the debate's final
\* severity
C3_Amended ==
    pc = "done" =>
        /\ output.continue = FALSE => SawCritical
        /\ ~hist.debated => (SawCritical => output.continue = FALSE)
        /\ hist.debated =>
               (output.continue = FALSE <=> inv.debate_result.final_severity = "CRITICAL")

C3_Witness ==
    pc = "done" /\ ~hist.debated /\ SawCritical /\ output.continue = FALSE

\* C6: no review call reaches an external adapter at a moment when
\* QuotaMonitor.is_available is false for it
C6_NoCallWhileUnavailable ==
    \A i \in 1..Len(hist.calls) : hist.calls[i].available

\* C7: detect_completion leaves the stored review_count as it was
C7_ReviewCountKept ==
    pc # "idle" => hist.count_after_detect = hist.count_before

\* C8: past Gate 1, a review_count >= max_reviews means no reviewer call, no
\* increment, no quota change and the budget-exhausted pass-through;
\* otherwise review_count is incremented by one before any reviewer call
C8_BudgetGate ==
    /\ (pc = "done" /\ hist.audit_event = "max_reviews_reached") =>
           /\ inv.review_count >= config.max_reviews
           /\ hist.calls = <<>>
           /\ GetCompletionReviewCount(todoFile) = inv.review_count
           /\ quotas = hist.quotas_at_gate
           /\ output = BudgetOutput
    /\ pc \in {"review", "collect", "debate_gate", "debate", "audit"} \/ Reviewed =>
           /\ hist.passed_gate1
           /\ inv.review_count < config.max_reviews
           /\ GetCompletionReviewCount(todoFile) = inv.review_count + 1
           /\ hist.calls # <<>> => hist.count_at_first_call = inv.review_count + 1

C8_Witness ==
    pc = "done" /\ hist.audit_event = "max_reviews_reached" /\ hist.passed_gate1

\* C9: an invocation appends no audit event before its last step, none at
\* all when Gate 1 stops it, and exactly one when it got past Gate 1
C9_OneAuditAtTheEnd ==
    /\ pc \notin {"idle", "done"} =>
           Len(auditLog) = hist.audit_len_at_start /\ hist.audits = 0
    /\ pc = "done" =>
           /\ Len(auditLog) = hist.audit_len_at_start + (IF hist.passed_gate1 THEN 1 ELSE 0)
           /\ hist.audits = (IF hist.passed_gate1 THEN 1 ELSE 0)
           /\ hist.passed_gate1 =>
                  auditLog[Len(auditLog)].event_type = hist.audit_event
                  /\ hist.audit_event \in {"completion_review", "max_reviews_reached"}

C9_Witness ==
    Reviewed /\ hist.debated /\ Len(hist.calls) >= 4
    /\ Len(auditLog) = hist.audit_len_at_start + 1

\* a debate round has collected its verdicts and is about to be judged
RoundEnds ==
    pc = "debate" /\ inv.idx > Len(inv.external_adapters) /\ inv.new_results # <<>>

\* the ordinals of the successful verdicts of the round being judged
RoundOrdinals ==
    {OrderIndex(inv.new_results[i].severity) :
        i \in {j \in 1..Len(inv.new_results) : inv.new_results[j].success}}

\* C12: at the end of a debate round, equal successful severities give
\* consensus at that severity, a one-step span gives consensus at the higher
\* one, and a wider span or no successful verdict gives no consensus, the
\* debate going on to the next round or, after the last, to the vote
C12_ConsensusStep ==
    [][RoundEnds =>
        IF RoundOrdinals # {} /\ \A m, n \in RoundOrdinals : m - n <= 1
        THEN /\ pc' = "audit"
             /\ inv'.debate_result.present
             /\ inv'.debate_result.consensus_reached
             /\ inv'.debate_result.round_num = inv.round_num
             /\ OrderIndex(inv'.debate_result.final_severity) \in RoundOrdinals
             /\ \A m \in RoundOrdinals : m <= OrderIndex(inv'.debate_result.final_severity)
        ELSE IF inv.round_num < config.max_rounds + 1
             THEN /\ pc' = "debate"
                  /\ ~inv'.debate_result.present
                  /\ inv'.round_num = inv.round_num + 1
                  /\ inv'.current_results = inv.new_results
             ELSE /\ pc' = "audit"
                  /\ inv'.debate_result.present
                  /\ ~inv'.debate_result.consensus_reached
                  /\ inv'.debate_result.final_severity
                       = WeightedVote(config, inv.new_results)]_vars

C12_Witness ==
    /\ pc = "audit"
    /\ inv.debate_result.present
    /\ inv.debate_result.consensus_reached
    /\ \E i, j \in 1..Len(inv.debate_result.results) :
           /\ inv.debate_result.results[i].success
           /\ inv.debate_result.results[j].success
           /\ OrderIndex(inv.debate_result.results[i].severity)
                = OrderIndex(inv.debate_result.results[j].severity) + 1
           /\ inv.debate_result.final_severity = inv.debate_result.results[i].severity

\* the positions in hist.calls of the reviewer calls made by run_debate
DebateCallIndices == {i \in 1..Len(hist.calls) : hist.calls[i].round_num >= 2}

\* what C13 says of run_debate apart from the range of the returned
\* round_num: its rounds are numbered 2..max_rounds+1 and each walks once
\* through the adapters, each adapter is called at most once per round and
\* so at most max_rounds times, no round follows one that reached consensus, and
\* the DebateRound returned has its final_severity set and tells consensus
\* exactly when its last round reached it
RunDebateBounded ==
    /\ pc = "debate" =>
           /\ inv.round_num \in 2..(config.max_rounds + 1)
           /\ Len(hist.rounds) = inv.round_num - 2
           /\ inv.idx \in 1..(Len(inv.external_adapters) + 1)
           /\ Len(inv.new_results) < inv.idx
    /\ \A i \in DebateCallIndices :
           /\ hist.calls[i].round_num \in 2..(config.max_rounds + 1)
           /\ \A j \in DebateCallIndices :
                  i # j => \/ hist.calls[i].adapter # hist.calls[j].adapter
                           \/ hist.calls[i].round_num # hist.calls[j].round_num
    /\ Cardinality(DebateCallIndices) <= config.max_rounds * Len(inv.external_adapters)
    /\ Len(hist.rounds) <= config.max_rounds
    /\ \A k \in 1..Len(hist.rounds) :
           /\ hist.rounds[k].num = k + 1
           /\ hist.rounds[k].consensus => k = Len(hist.rounds) /\ inv.debate_result.present
    /\ inv.debate_result.present =>
           /\ inv.debate_result.final_severity \in Severities
           /\ inv.debate_result.consensus_reached <=>
                  (hist.rounds # <<>> /\ hist.rounds[Len(hist.rounds)].consensus)
           /\ inv.debate_result.consensus_reached =>
                  inv.debate_result.round_num = Len(hist.rounds) + 1

\* C13 as stated: run_debate is bounded as above and the round_num of the
\* DebateRound it returns lies between 2 and max_rounds+1
C13_RunDebateRounds ==
    /\ RunDebateBounded
    /\ inv.debate_result.present =>
           inv.debate_result.round_num \in 2..(config.max_rounds + 1)

\* C13 amended: run_debate is bounded as above and the round_num of the
\* DebateRound it returns lies between 2 and max_rounds+1 when max_rounds is
\* at least 1; with max_rounds = 0 no round runs and it is max_rounds+1 = 1
C13_Amended ==
    /\ RunDebateBounded
    /\ inv.debate_result.present =>
           IF config.max_rounds >= 1
           THEN inv.debate_result.round_num \in 2..(config.max_rounds + 1)
           ELSE /\ inv.debate_result.round_num = config.max_rounds + 1
                /\ ~inv.debate_result.consensus_reached
                /\ hist.rounds = <<>>
                /\ DebateCallIndices = {}

C13_Witness ==
    /\ inv.debate_result.present
    /\ Len(hist.rounds) = 2
    /\ hist.rounds[2].consensus
    /\ Cardinality(DebateCallIndices) = 4

RECURSIVE SumSeq(_)
SumSeq(s) == IF s = <<>> THEN 0 ELSE Head(s) + SumSeq(Tail(s))

\* n is num/den rounded to the nearest integer, halves to the even one
IsRoundHalfEven(n, num, den) ==
    /\ 2 * num - den <= 2 * n * den
    /\ 2 * n * den <= 2 * num + den
    /\ (2 * n * den = 2 * num + den \/ 2 * n * den = 2 * num - den) => n % 2 = 0

\* C10: a DebateRound with consensus has successful verdicts spanning at
\* most one step and their highest severity as final severity; one without
\* consensus has the weighted vote over its successful verdicts
C10_DebateRoundSeverity ==
    inv.debate_result.present =>
        LET rs == inv.debate_result.results
            S  == {i \in 1..Len(rs) : rs[i].success}
            W  == SumSeq([i \in 1..Len(rs) |->
                     IF rs[i].success THEN WeightOf(config, rs[i].adapter_name) ELSE 0])
            X  == SumSeq([i \in 1..Len(rs) |->
                     IF rs[i].success
                     THEN WeightOf(config, rs[i].adapter_name) * (OrderIndex(rs[i].severity) - 1)
                     ELSE 0])
            fs == inv.debate_result.final_severity
        IN  IF inv.debate_result.consensus_reached
            THEN /\ S # {}
                 /\ \A i, j \in S :
                        OrderIndex(rs[i].severity) - OrderIndex(rs[j].severity) <= 1
                 /\ \E i \in S : rs[i].severity = fs
                 /\ \A i \in S : OrderIndex(rs[i].severity) <= OrderIndex(fs)
            ELSE /\ fs \in Severities
                 /\ W = 0 => fs = "OK"
                 /\ W > 0 => IsRoundHalfEven(OrderIndex(fs) - 1, X, W)

C10_Witness ==
    /\ inv.debate_result.present
    /\ ~inv.debate_result.consensus_reached
    /\ \E i \in 1..Len(inv.debate_result.results) : inv.debate_result.results[i].success
    /\ \A i \in 1..Len(inv.debate_result.results) :
           inv.debate_result.results[i].severity # inv.debate_result.final_severity

\* _run_parallel_reviews has returned
FanOutReturned == pc = "debate_gate"

\* the positions in results of the verdicts named a that are not self-reviews
VerdictsOf(results, a) ==
    {i \in 1..Len(results) : results[i].adapter_name = a /\ ~results[i].is_self_review}

\* C18: the fan-out returns one verdict per selected external adapter, plus
\* the self-review verdict when include_self_review is set, and for an
\* adapter whose review raised that verdict is a failed one under its name
C18_OneVerdictPerAdapter ==
    FanOutReturned =>
        /\ Len(inv.results) =
               Len(inv.external_adapters) + (IF config.include_self_review THEN 1 ELSE 0)
        /\ Cardinality({i \in 1..Len(inv.results) : inv.results[i].is_self_review}) =
               (IF config.include_self_review THEN 1 ELSE 0)
        /\ \A a \in ExternalNames :
               Cardinality(VerdictsOf(inv.results, a)) =
                   (IF a \in SeqToSet(inv.external_adapters) THEN 1 ELSE 0)
        /\ \A a \in hist.raised :
               \A i \in VerdictsOf(inv.results, a) : ~inv.results[i].success

\* the fan-out returned after one adapter raised and another returned a
\* failed verdict
C18_Witness ==
    /\ FanOutReturned
    /\ hist.raised # {}
    /\ \E i \in 1..Len(inv.results) :
          /\ ~inv.results[i].success
          /\ inv.results[i].adapter_name \notin hist.raised

\* the names of the verdicts that are not self-reviews, in their order
RECURSIVE ExternalNamesOf(_)
ExternalNamesOf(results) ==
    IF results = <<>> THEN <<>>
    ELSE IF Head(results).is_self_review THEN ExternalNamesOf(Tail(results))
         ELSE <<Head(results).adapter_name>> \o ExternalNamesOf(Tail(results))

\* C19: the external verdicts the fan-out returns are in the order of the
\* input adapters, whatever the order in which the reviews complete
C19_InputOrder ==
    FanOutReturned => ExternalNamesOf(inv.results) = inv.external_adapters

\* C20: for a todo list that is empty or holds a todo that is not completed,
\* detect_completion returns just_completed = false and all_completed =
\* false, whatever snapshot the session has stored
C20_NoEdgeUnlessAllCompleted ==
    pc # "idle" =>
        ( (inv.todos = <<>> \/ \E i \in 1..Len(inv.todos) : inv.todos[i] # "completed")
            => ~hist.just_completed /\ ~hist.all_completed )

\* detect_completion has returned for a list with a completed and a pending
\* todo on a session whose stored snapshot was all-complete
C20_Witness ==
    /\ pc # "idle"
    /\ hist.prev_all_completed
    /\ \E i, j \in 1..Len(inv.todos) :
          inv.todos[i] = "completed" /\ inv.todos[j] # "completed"
    /\ ~hist.just_completed /\ ~hist.all_completed

\* a step in which orchestrate calls detect_completion
DetectionCall == pc = "idle" /\ nInv' = nInv + 1

\* C34: after every detect_completion call the stored snapshot's
\* all_completed, total and completed are the values computed from the todo
\* list of that call, the empty list included
C34_SnapshotWrittenEveryCall ==
    [][DetectionCall =>
          /\ Get(todoFile', "all_completed", FALSE)
                = (inv'.todos # <<>> /\ CountCompleted(inv'.todos) = Len(inv'.todos))
          /\ Get(todoFile', "total", 0) = Len(inv'.todos)
          /\ Get(todoFile', "completed", 0) = CountCompleted(inv'.todos)]_vars

\* the running invocation got past Gate 1 and has read review_count at Gate 2
ReadAtGate2 == hist.passed_gate1 /\ pc \notin {"idle", "gate2"}

\* for max_reviews >= 1 the budget branch is not taken and the invocation
\* goes on to the reviewers
EdgeRunsReviewers ==
    ReadAtGate2 /\ config.max_reviews >= 1 =>
        /\ hist.audit_event # "max_reviews_reached"
        /\ pc = "done" => Reviewed

\* C35 as stated: over sequential invocations of a session the review_count
\* read at Gate 2 is 0, every audit event carries review_count 1, and for
\* max_reviews >= 1 every completion edge runs the reviewers
C35_CountNeverAccumulates ==
    /\ ReadAtGate2 => inv.review_count = 0
    /\ \A i \in 1..Len(auditLog) : auditLog[i].review_count = 1
    /\ EdgeRunsReviewers

\* C35 amended: the review_count read at Gate 2 is 0; every completion_review
\* audit event carries review_count 1 and every max_reviews_reached event,
\* written only when max_reviews <= 0, carries 0; for max_reviews >= 1 every
\* completion edge runs the reviewers
C35_Amended ==
    /\ ReadAtGate2 => inv.review_count = 0
    /\ \A i \in 1..Len(auditLog) :
          /\ auditLog[i].event_type = "completion_review" =>
                 auditLog[i].review_count = 1
          /\ auditLog[i].event_type = "max_reviews_reached" =>
                 auditLog[i].review_count = 0 /\ config.max_reviews <= 0
    /\ EdgeRunsReviewers

\* the second completion edge of a session has been reviewed: both audit
\* events carry review_count 1
C35_Witness ==
    /\ Reviewed
    /\ hist.passed_gate1
    /\ config.max_reviews >= 1
    /\ inv.review_count = 0
    /\ Len(auditLog) >= 2
    /\ \A i \in 1..Len(auditLog) :
          auditLog[i].event_type = "completion_review" /\ auditLog[i].review_count = 1

\* every verdict the running orchestration holds or has received
VerdictsProduced ==
    hist.verdicts_seen
    \cup SeqToSet(inv.results) \cup SeqToSet(inv.current_results)
    \cup SeqToSet(inv.new_results) \cup SeqToSet(inv.debate_result.results)

\* every adapter of the running debate round has been dealt with
RoundComplete == pc = "debate" /\ inv.idx > Len(inv.external_adapters)

\* C21: every failed verdict of an orchestration has severity OK and no
\* issues, and where the orchestration evaluates the debate trigger, the
\* consensus check, the weighted vote and the final severity, each gives
\* what it gives on the list without its failed verdicts
C21_FailedVerdictsInert ==
    /\ \A v \in VerdictsProduced :
          ~v.success => v.severity = "OK" /\ v.issues = <<>>
    /\ FanOutReturned =>
          NeedsDebate(config, inv.results) = NeedsDebate(config, Successful(inv.results))
    /\ RoundComplete =>
          /\ CheckConsensus(inv.new_results) = CheckConsensus(Successful(inv.new_results))
          /\ WeightedVote(config, inv.new_results)
                 = WeightedVote(config, Successful(inv.new_results))
    /\ pc = "audit" =>
          FinalSeverity(inv.results, inv.debate_result)
              = FinalSeverity(Successful(inv.results), inv.debate_result)

\* a debate round holds a failed verdict next to a successful one with
\* findings, after a failed round-1 verdict
C21_Witness ==
    /\ RoundComplete
    /\ \E v \in hist.verdicts_seen : ~v.success
    /\ \E i, j \in 1..Len(inv.new_results) :
          /\ ~inv.new_results[i].success
          /\ inv.new_results[j].success /\ inv.new_results[j].severity # "OK"

\* C22: when the audit line cannot be written, orchestrate still returns
\* the decision it returns after a successful write, and the process does
\* not fail
C22_AuditBestEffort ==
    hist.audit_failed => pc = "done" /\ output = hist.decision

\* C24: every invocation ends by printing one object with exactly the keys
\* continue and systemMessage, continue being a boolean, and an invocation
\* whose stdin does not parse prints continue = true and exits with status 0
C24_AlwaysADecision ==
    pc \in {"done", "crashed"} =>
        /\ pc = "done"
        /\ DOMAIN output = {"continue", "systemMessage"}
        /\ output.continue \in BOOLEAN
        /\ hist.stdin = "not_json" => output.continue = TRUE

\* the adapters with a successful verdict in rs
SuccessfulNames(rs) == {rs[i].adapter_name : i \in {j \in 1..Len(rs) : rs[j].success}}

\* the positions in hist.calls of the review calls made on a in round k
CallsIn(k, a) ==
    {i \in 1..Len(hist.calls) : hist.calls[i].round_num = k /\ hist.calls[i].adapter = a}

\* C25: in a debate round review is called once on every adapter whose
\* verdict of the preceding round was successful and on no other adapter
C25_DebateRoundFanOut ==
    RoundComplete =>
        \A a \in ExternalNames :
            Cardinality(CallsIn(inv.round_num, a)) =
                (IF a \in SuccessfulNames(inv.current_results) THEN 1 ELSE 0)

\* the verdicts of rs that adapter a did not produce, in their order
NotBy(rs, a) == SelectSeq(rs, LAMBDA r : r.adapter_name # a)

\* a debate prompt has just been built, for the adapter before inv.idx
PromptBuilt == pc = "debate" /\ inv.other_results # <<>>

\* C26: the verdicts shown to adapter A in round k are exactly the verdicts
\* of round k-1 that the other external adapters produced; A's own verdict
\* and the verdicts of round k are not among them
C26_PromptFromPreviousRound ==
    PromptBuilt =>
        LET a == inv.external_adapters[inv.idx - 1]
        IN  /\ inv.other_results = NotBy(hist.prev_round, a)
            /\ \A i \in 1..Len(inv.other_results) :
                   inv.other_results[i].adapter_name # a
            /\ Len(inv.other_results) <= Len(hist.prev_round)

\* the second prompt of round 3, built while the first verdict of round 3
\* differs from the one that adapter gave in round 2
C26_Witness ==
    /\ PromptBuilt
    /\ inv.round_num = 3
    /\ Len(inv.new_results) = 2
    /\ inv.new_results[1] \notin {hist.prev_round[i] : i \in 1..Len(hist.prev_round)}
    /\ inv.other_results[1].adapter_name = inv.new_results[1].adapter_name

\* the record_success and record_failure calls a quota record has counted
RecordsIn(q) == IF q.present THEN q.success_count + q.failure_count ELSE 0

\* the review calls made on adapter a in this invocation, in any round
CallsOn(a) == {i \in 1..Len(hist.calls) : hist.calls[i].adapter = a}

\* the reviews of this invocation have returned: after the fan-out, after
\* the debate, after the audit event
ReviewsReturned ==
    pc \in {"debate_gate", "audit"} \/ (pc = "done" /\ hist.after_audit)

\* C30: every review call made on an external adapter, in the fan-out or
\* in a debate round, is matched by one record_success or record_failure
\* for that adapter
C30_EveryCallRecorded ==
    ReviewsReturned =>
        \A a \in ExternalNames :
            RecordsIn(quotas[a]) - RecordsIn(hist.quotas_at_gate[a])
                = Cardinality(CallsOn(a))

\* one self-review verdict for each self-review call of round 1
Round1Self ==
    [i \in 1..Cardinality({j \in 1..Len(hist.calls) : hist.calls[j].adapter = SelfName})
        |-> SelfVerdict]

\* the elements of a sequence
Range(seq) == {seq[i] : i \in 1..Len(seq)}

\* a debate ran and its result list stands (audit event and decision)
AfterDebate == pc \in {"audit", "done"} /\ hist.debated

\* C27: after a debate the result list is the round-1 self-review verdicts
\* followed by the debate's final verdicts and nothing else, and the
\* decision still carries one self-review payload per self-review verdict
C27_DebateReplacesExternals ==
    AfterDebate =>
        /\ inv.debate_result.present
        /\ inv.results = Round1Self \o inv.debate_result.results
        /\ \A i \in 1..Len(inv.results) :
               ~inv.results[i].is_self_review =>
                   inv.results[i] \in Range(inv.debate_result.results)
        /\ pc = "done" =>
               /\ Len(output.systemMessage) >= Len(Round1Self)
               /\ \A i \in 1..Len(Round1Self) :
                      output.systemMessage[i] = "self_review_request"

\* a decision after a debate with a self-review verdict, where a round-1
\* external verdict is no longer in the result list
C27_Witness ==
    /\ AfterDebate
    /\ pc = "done"
    /\ Round1Self # <<>>
    /\ \E v \in hist.verdicts_seen : v \notin Range(inv.results)
    /\ "self_review_request" \in Range(output.systemMessage)

\* run_debate made reviewer calls and every verdict of its last round failed
LastRoundAllFailed ==
    /\ AfterDebate
    /\ DebateCallIndices # {}
    /\ inv.debate_result.results # <<>>
    /\ \A i \in 1..Len(inv.debate_result.results) : ~inv.debate_result.results[i].success

\* C36: when every verdict of the last debate round is a failure, run_debate
\* returns consensus_reached false and final_severity OK and the decision is
\* continue = true, whatever the round-1 verdicts were
C36_FailedRoundPasses ==
    LastRoundAllFailed =>
        /\ ~inv.debate_result.consensus_reached
        /\ inv.debate_result.final_severity = "OK"
        /\ pc = "done" => output.continue

\* a debate started by a CRITICAL round-1 verdict ended in a round of
\* failures and the decision lets the caller continue
C36_Witness ==
    /\ LastRoundAllFailed
    /\ pc = "done"
    /\ \E v \in hist.verdicts_seen : ~v.is_self_review /\ v.success /\ v.severity = "CRITICAL"
    /\ output.continue

\* the external verdicts the invocation has received
ExternalSeen == {v \in hist.verdicts_seen : ~v.is_self_review}

\* C37: a debate over a single external adapter makes no reviewer call and
\* returns that adapter's round-1 verdict unchanged, with consensus_reached
\* false, round_num = max_rounds + 1 and the verdict's severity as
\* final_severity
C37_SingleAdapterDebate ==
    AfterDebate /\ Len(inv.external_adapters) = 1 =>
        /\ DebateCallIndices = {}
        /\ \E v \in ExternalSeen :
              /\ ExternalSeen = {v}
              /\ v.success
              /\ inv.debate_result.results = <<v>>
              /\ inv.debate_result.final_severity = v.severity
        /\ ~inv.debate_result.consensus_reached
        /\ inv.debate_result.round_num = config.max_rounds + 1

\* a debate over gemini alone has returned gemini's HIGH round-1 verdict
C37_Witness ==
    /\ AfterDebate
    /\ pc = "done"
    /\ inv.external_adapters = <<"gemini">>
    /\ config.max_rounds >= 1
    /\ inv.debate_result.results = <<SuccessVerdict("gemini", "HIGH")>>
    /\ inv.debate_result.final_severity = "HIGH"

----------------------------------------------------------------------------
(* Properties under SpecFanOut *)

\* C31: once the shared deadline, the largest adapter timeout, is over, the
\* fan-out has returned with one verdict per submitted adapter, a failed
\* verdict with a timeout error for every call that was still in flight
C31_FanOutDeadline ==
    fo.elapsed > TimeoutSeconds =>
        /\ fo.returned
        /\ Len(fo.results) = Len(fo.adapters)
        /\ \A a \in fo.hung : FailedVerdict(a, "timeout") \in Range(fo.results)

----------------------------------------------------------------------------
(* Properties under SpecQuotaProcs *)

\* C32: when both hook processes have recorded results, quota_state.json
\* counts every record_success and record_failure either of them made
C32_NoLostQuotaRecord ==
    qp.recorded = QuotaProcs =>
        \A a \in ExternalNames : RecordsIn(quotas[a]) = qp.made[a]

----------------------------------------------------------------------------
(* Properties under SpecParse *)

\* C33: parse_response returns, for every reply, a verdict with success true
\* and one of the five severities, and never raises
C33_ParseNeverRaises ==
    pr.ret # NotParsed =>
        /\ pr.ret.raised = "none"
        /\ pr.ret.verdict.success
        /\ pr.ret.verdict.severity \in Severities

----------------------------------------------------------------------------
(* Properties under SpecReview *)

\* the step is an orchestrate invocation of stage st in session s
Orchestrated(s, st) ==
    /\ ro'.ops = ro.ops + 1
    /\ ro'.last.op = "orchestrate"
    /\ ro'.last.session = s
    /\ ro'.last.stage = st

\* C39: over sequential invocations the stored retry count of a (session,
\* stage) never decreases and goes up by one exactly in the invocations of
\* that stage that block; at most max_retries invocations block, and once
\* the count has reached max_retries a HIGH or CRITICAL result of the stage
\* yields the decision continue
C39_RetryCountsBlocks ==
    [][\A s \in Sessions, st \in ReviewStages :
          /\ ro'.retry[s][st] >= ro.retry[s][st]
          /\ ro'.retry[s][st] = ro.retry[s][st] + 1
                <=> (Orchestrated(s, st) /\ ro'.last.decision = "block")
          /\ ro'.blocks[s][st] <= ro.max_retries[st]
          /\ (Orchestrated(s, st) /\ ro.retry[s][st] >= ro.max_retries[st]
                /\ NeedsRework(ro'.last.severity))
                => ro'.last.decision = "continue"]_vars

\* the step made a check_and_consume_override call for session s
ConsumeCalled(s) ==
    /\ ro'.ops = ro.ops + 1
    /\ ro'.last.session = s
    /\ ro'.last.consumed # "not_called"

\* C40: after set_override(s, n) with n >= 0 the next n
\* check_and_consume_override(s) calls return true and take one off
\* skip_count, every later call returns false and leaves the stored state as
\* it is, skip_count is never negative, and no operation on a session
\* changes another session's override
C40_OverrideConsumption ==
    [][\A s \in Sessions :
          /\ (ConsumeCalled(s) /\ ro.grant[s].set /\ ro.grant[s].n >= 0) =>
                IF ro.grant[s].calls < ro.grant[s].n
                THEN /\ ro'.last.consumed = "true"
                     /\ ro'.override[s].skip_count = ro.override[s].skip_count - 1
                ELSE /\ ro'.last.consumed = "false"
                     /\ ro'.override[s] = ro.override[s]
          /\ (ro'.grant[s].set /\ ro'.grant[s].n >= 0) =>
                ro'.override[s].skip_count >= 0
          /\ ro'.last.session # s => ro'.override[s] = ro.override[s]]_vars

\* a session's override of one skip has been consumed by a first call and a
\* second call has returned false
C40_Witness ==
    \E s \in Sessions :
        /\ ro.last.session = s
        /\ ro.last.consumed = "false"
        /\ ro.grant[s].set /\ ro.grant[s].n >= 1
        /\ ro.grant[s].calls = ro.grant[s].n + 1
        /\ ro.override[s].skip_count = 0

----------------------------------------------------------------------------
(* Properties under SpecRMW *)

AllReturned == \A p \in Callers : rmw.callers[p].pc = "returned"

\* C4: once all N concurrent increments have returned, the stored counter is
\* its starting value plus N and the N returned values are pairwise distinct
C4_NoLostUpdate ==
    AllReturned =>
        /\ rmw.stored = rmw.start + rmw.n
        /\ \A p, q \in Callers : p # q => rmw.callers[p].ret # rmw.callers[q].ret

----------------------------------------------------------------------------
(* Properties under SpecQuota *)

\* the latest is_available call was for an adapter with a watched
\* quota-keyword failure and no record_success since
CheckedWhileArmed == qm.last.adapter # "none" /\ qm.last.armed # NotArmed

\* C5 as stated: after a quota-keyword failure at t and no record_success
\* since, is_available is false before t+30 minutes and true at the first
\* call at or after t+30 minutes
C5_CooldownWindow ==
    CheckedWhileArmed =>
        (qm.last.result <=> qm.last.at >= qm.last.armed + CooldownMinutes)

\* C5 amended: the same, provided that since the failure the adapter saw no
\* record_success and no further record_failure, and no QuotaMonitor was
\* constructed on another local date than the one the state was saved on
C5_Amended ==
    CheckedWhileArmed /\ qm.last.clean =>
        (qm.last.result <=> qm.last.at >= qm.last.armed + CooldownMinutes)

C5_Witness ==
    /\ CheckedWhileArmed
    /\ qm.last.clean
    /\ qm.last.at >= qm.last.armed + CooldownMinutes
    /\ qm.last.result
    /\ quotas[qm.last.adapter].cooldown_until = NoCooldown

----------------------------------------------------------------------------
(* Properties under SpecDebateFn *)

\* the positions of the successful non-self verdicts of the call's argument
SuccessfulExternal ==
    {i \in 1..Len(fn.results) : fn.results[i].success /\ ~fn.results[i].is_self_review}

\* C11: needs_debate returns true exactly when debate is enabled, some
\* non-self verdict succeeded, and either the high-severity trigger is set
\* and a successful verdict is HIGH or CRITICAL, or the disagreement trigger
\* is set and two successful verdicts lie two or more steps apart
C11_NeedsDebateExactly ==
    fn.ret.op = "needs_debate" =>
        (fn.ret.needs <=>
            /\ config.debate_enabled
            /\ SuccessfulExternal # {}
            /\ \/ /\ config.trigger_on_high
                  /\ \E i \in SuccessfulExternal :
                         fn.results[i].severity \in {"HIGH", "CRITICAL"}
               \/ /\ config.trigger_on_disagreement
                  /\ Cardinality(SuccessfulExternal) >= 2
                  /\ \E i, j \in SuccessfulExternal :
                         OrderIndex(fn.results[i].severity)
                           - OrderIndex(fn.results[j].severity) >= 2)

C11_Witness ==
    /\ fn.ret.op = "needs_debate"
    /\ fn.ret.needs
    /\ \A i \in SuccessfulExternal : fn.results[i].severity \notin {"HIGH", "CRITICAL"}

\* the positions of the successful verdicts of the call's argument
SuccessfulIn == {i \in 1..Len(fn.results) : fn.results[i].success}

\* conflict_resolution.weights[a], or 1 when the table has no entry for a
ConfiguredWeight(a) == IF a \in config.weight_keys THEN config.weights[a] ELSE 1

\* the weights of the successful verdicts of the call's argument, summed
VoteWeight ==
    SumSeq([i \in 1..Len(fn.results) |->
              IF i \in SuccessfulIn
              THEN ConfiguredWeight(fn.results[i].adapter_name) ELSE 0])

\* weight times ordinal of the successful verdicts, summed
VoteScore ==
    SumSeq([i \in 1..Len(fn.results) |->
              IF i \in SuccessfulIn
              THEN ConfiguredWeight(fn.results[i].adapter_name)
                     * (OrderIndex(fn.results[i].severity) - 1)
              ELSE 0])

\* the weighted average lies halfway between two adjacent ordinals
VoteTie == VoteWeight > 0 /\ (2 * VoteScore) % (2 * VoteWeight) = VoteWeight

C29_TiesResolveUpward ==
    (fn.ret.op = "weighted_vote" /\ VoteTie) =>
        OrderIndex(fn.ret.severity) - 1 = (VoteScore \div VoteWeight) + 1

\* the scores of the successful verdicts of the call's argument
SuccessfulScores == {OrderIndex(fn.results[i].severity) - 1 : i \in SuccessfulIn}

\* C38: with at least one successful verdict the weighted vote is no lower
\* than the lowest and no higher than the highest successful severity, and it
\* is the looked-up severity of a score within a half of the weighted
\* average, never the lookup's MEDIUM default
C38_VoteWithinRange ==
    (fn.ret.op = "weighted_vote" /\ SuccessfulIn # {}) =>
        LET voted == OrderIndex(fn.ret.severity) - 1
        IN  /\ \E lo \in SuccessfulScores : lo <= voted
            /\ \E hi \in SuccessfulScores : voted <= hi
            /\ 2 * (voted * VoteWeight - VoteScore) <= VoteWeight
            /\ 2 * (VoteScore - voted * VoteWeight) <= VoteWeight
            /\ (fn.ret.severity = "CRITICAL" => 4 \in SuccessfulScores)

\* a vote over a successful OK and a successful CRITICAL verdict under a
\* weight table returns a severity strictly between the two
C38_Witness ==
    /\ fn.ret.op = "weighted_vote"
    /\ config.weight_keys # {}
    /\ {0, 4} \subseteq SuccessfulScores
    /\ OrderIndex(fn.ret.severity) - 1 \in 1..3

\* the error texts of ErrorText that hold one of the words quota, limit,
\* exceeded, rate, 429, exhausted in any letter case: "Quota exceeded",
\* "API error 429" and "failed to generate" (gene-rate)
KeywordErrors == {"quota", "http429", "generate"}

\* the step taken is record_failure(a, e)
IsRecordFailure(a, e) ==
    qm'.ops = qm.ops + 1 /\ qm'.fail = [adapter |-> a, error |-> e]

\* the counters of adapter a before a record_* call (zero when a has no record)
CountersBefore(a) ==
    IF quotas[a].present
    THEN [failure_count |-> quotas[a].failure_count,
          consecutive_failures |-> quotas[a].consecutive_failures]
    ELSE [failure_count |-> 0, consecutive_failures |-> 0]

\* C14: record_failure adds one to failure_count and consecutive_failures,
\* then a keyword error or a third consecutive failure gives status
\* exhausted with cooldown_until = now + 30 minutes, else a second
\* consecutive failure gives status low, else the status becomes unknown
C14_FailureClassification ==
    [][\A a \in ExternalNames, e \in ErrorIds :
         IsRecordFailure(a, e) =>
           /\ quotas'[a].present
           /\ quotas'[a].failure_count = CountersBefore(a).failure_count + 1
           /\ quotas'[a].consecutive_failures = CountersBefore(a).consecutive_failures + 1
           /\ IF e \in KeywordErrors \/ quotas'[a].consecutive_failures >= 3
              THEN /\ quotas'[a].status = "exhausted"
                   /\ quotas'[a].cooldown_until = now + 30
              ELSE IF quotas'[a].consecutive_failures >= 2
                   THEN quotas'[a].status = "low"
                   ELSE quotas'[a].status = "unknown"]_vars

\* C15: every adapter record with a cooldown_until set has status exhausted
C15_CooldownMeansExhausted ==
    \A a \in ExternalNames :
        quotas[a].present /\ quotas[a].cooldown_until # NoCooldown
            => quotas[a].status = "exhausted"

\* the step taken is the load of the quota file by a new QuotaMonitor
IsLoad == qm'.loaded

\* C16: a load that finds another date than today's in the quota file leaves
\* no record, so every adapter is available with zero counters; a load that
\* finds today's date restores every stored record unchanged
C16_DailyReset ==
    [][IsLoad =>
         IF quotaDate # today
         THEN \A a \in ExternalNames :
                 /\ ~quotas'[a].present
                 /\ IsAvailable(quotas'[a], now)
                 /\ quotas'[a].failure_count = 0
                 /\ quotas'[a].success_count = 0
                 /\ quotas'[a].consecutive_failures = 0
         ELSE quotas' = quotas]_vars

\* a load on a new day has discarded the record of an adapter that a quota
\* failure had put in a cooldown which has not ended yet
C16_Witness ==
    /\ qm.loaded
    /\ \E a \in ExternalNames :
          /\ qm.armed[a] # NotArmed
          /\ now < qm.armed[a] + CooldownMinutes
          /\ ~quotas[a].present
          /\ IsAvailable(quotas[a], now)

----------------------------------------------------------------------------
(* Properties under SpecDetect *)

DetectAllReturned == \A p \in DetectCallers : det.callers[p].pc = "returned"

\* the outcome of the calls made one after the other in the given order:
\* what each returns (by position in the order) and the file left
RECURSIVE SerialDetect(_, _)
SerialDetect(file, order) ==
    IF order = <<>>
    THEN [file |-> file, rets |-> <<>>]
    ELSE LET todos == det.callers[Head(order)].todos
             rest == SerialDetect(DetectFile(file, todos), Tail(order))
         IN  [file |-> rest.file,
              rets |-> <<DetectResult(file, todos)>> \o rest.rets]

\* C17: two concurrent invocations with a fully completed list, on a session
\* whose stored snapshot is not all-complete, end as one of the two serial
\* orders ends, and at most one of them gets just_completed = true
C17_DetectLinearized ==
    ( /\ det.n = 2
      /\ DetectAllReturned
      /\ ~Get(det.start, "all_completed", FALSE)
      /\ \A p \in DetectCallers :
            /\ det.callers[p].todos # <<>>
            /\ CountCompleted(det.callers[p].todos) = Len(det.callers[p].todos) )
    => /\ \E order \in {<<1, 2>>, <<2, 1>>} :
             LET serial == SerialDetect(det.start, order)
             IN  /\ serial.file = det.file
                 /\ \A i \in 1..2 : serial.rets[i] = det.callers[order[i]].ret
       /\ Cardinality({p \in DetectCallers : det.callers[p].ret.just_completed}) <= 1

----------------------------------------------------------------------------
(* Properties under SpecStateFile *)

\* C23: a read of a missing file or of a file that does not hold valid JSON
\* returns an empty object without raising and leaves the file as it was,
\* and a read that follows a write to the file returns the object written
C23_CorruptReadsEmpty ==
    /\ (sf.last.op = "read" /\ sf.last.before.kind \in {"missing", "bad_text", "bad_bytes"})
          => /\ ~sf.last.raised
             /\ sf.last.value = EmptyObject
             /\ sf.file = sf.last.before
    /\ (sf.last.op = "read" /\ sf.prev.op = "write"
           /\ sf.prev.before.kind \in {"bad_text", "bad_bytes"})
          => ~sf.last.raised /\ sf.last.value = sf.prev.value

====
